---- MODULE Spec2Model ----
(***************************************************************************)
(* High-Scale Energy Ingestion Engine: telemetry ingestion, vehicle-meter  *)
(* mapping and the 24-hour performance query, over the five relations of   *)
(* the PostgreSQL store.                                                   *)
(*                                                                         *)
(* Conventions                                                             *)
(*  - A relation with a primary key is a set of rows; a history relation   *)
(*    (SERIAL id) is the sequence of its rows in insertion order.          *)
(*  - An instant is a number of milliseconds since 2026-01-01T00:00:00Z.   *)
(*  - Measurements in payloads and rows are whole numbers (kWh, %, deg C,  *)
(*    V).  Numbers in a performance response are in hundredths, so that    *)
(*    0.83 is 83 and 25.67 is 2567: toFixed(2) is modelled by ToFixed2.    *)
(*  - A JSON body is a record whose domain is the set of keys it has.       *)
(***************************************************************************)
EXTENDS Integers, Sequences, FiniteSets

VARIABLES vehicleHistory, meterHistory, currentVehicleStatus,
          currentMeterStatus, mapping, now, call, pending

vars == <<vehicleHistory, meterHistory, currentVehicleStatus,
          currentMeterStatus, mapping, now, call, pending>>

db == <<vehicleHistory, meterHistory, currentVehicleStatus,
        currentMeterStatus, mapping>>

(***************************************************************************)
(* Bounds of the model                                                     *)
(***************************************************************************)
MaxRows == 3

VehicleIds == {"EV-1", "EV-2"}

MeterIds == {"M-1", "M-2"}

HourMs == 60 * 60 * 1000

DayMs == 24 * 60 * 60 * 1000

\* Wall-clock instants at which calls are made: 2026-01-02T00:00Z, T12:00Z.
Clock == {24 * HourMs, 36 * HourMs}

(***************************************************************************)
(* new Date(string): the timestamps callers send, and their instants.      *)
(* An Invalid Date is [valid |-> FALSE].                                   *)
(***************************************************************************)
Instant(t) == [valid |-> TRUE, time |-> t]

InvalidDate == [valid |-> FALSE, time |-> 0]

ParseDate(s) ==
    CASE s = "2026-01-01T00:00:00Z"      -> Instant(0)
      [] s = "2026-01-01T05:30:00+05:30" -> Instant(0)
      [] s = "2026-01-02T12:00:00Z"      -> Instant(36 * HourMs)
      [] OTHER                           -> InvalidDate

(***************************************************************************)
(* Request bodies of POST /v1/telemetry: a body is a record of the keys it *)
(* has.                                                                    *)
(***************************************************************************)
\* The body r with the key k added.
WithKey(r, k, v) ==
    [c \in DOMAIN r \cup {k} |-> IF c = k THEN v ELSE r[c]]

\* Two readings that each vehicle sends, one of 2026-01-01T00:00Z and one of
\* 2026-01-02T12:00Z.
VehicleReadings ==
    {[soc |-> 50, kwhDeliveredDc |-> 10, batteryTemp |-> 25,
      timestamp |-> "2026-01-01T00:00:00Z"],
     [soc |-> 80, kwhDeliveredDc |-> 86, batteryTemp |-> 26,
      timestamp |-> "2026-01-02T12:00:00Z"]}

\* The first reading with its instant written with a UTC offset, and a reading
\* whose timestamp is no date.
VehiclePayloads ==
    {WithKey(r, "vehicleId", v) : v \in VehicleIds, r \in VehicleReadings}
    \cup {[vehicleId |-> "EV-1", soc |-> 50, kwhDeliveredDc |-> 10,
           batteryTemp |-> 25, timestamp |-> "2026-01-01T05:30:00+05:30"],
          [vehicleId |-> "EV-2", soc |-> 80, kwhDeliveredDc |-> 86,
           batteryTemp |-> 26, timestamp |-> "not-a-date"]}

\* Meter bodies: 12 kWh and 100 kWh for M-1; 12 kWh and a negative reading
\* for M-2, and one whose timestamp is no date.
MeterPayloads ==
    {[meterId |-> "M-1", kwhConsumedAc |-> 12, voltage |-> 230,
      timestamp |-> "2026-01-01T00:00:00Z"],
     [meterId |-> "M-1", kwhConsumedAc |-> 100, voltage |-> 240,
      timestamp |-> "2026-01-02T12:00:00Z"],
     [meterId |-> "M-2", kwhConsumedAc |-> 12, voltage |-> 230,
      timestamp |-> "2026-01-01T05:30:00+05:30"],
     [meterId |-> "M-2", kwhConsumedAc |-> 0 - 12, voltage |-> 240,
      timestamp |-> "2026-01-02T12:00:00Z"],
     [meterId |-> "M-2", kwhConsumedAc |-> 100, voltage |-> 240,
      timestamp |-> "not-a-date"]}

\* Bodies that carry both identifiers: a complete reading of each kind, and a
\* vehicle reading with a stray meterId.
BothPayloads ==
    {[vehicleId |-> "EV-1", meterId |-> "M-1", soc |-> 80,
      kwhDeliveredDc |-> 86, batteryTemp |-> 26, kwhConsumedAc |-> 100,
      voltage |-> 240, timestamp |-> "2026-01-02T12:00:00Z"],
     [vehicleId |-> "EV-2", meterId |-> "M-2", soc |-> 50,
      kwhDeliveredDc |-> 10, batteryTemp |-> 25,
      timestamp |-> "2026-01-01T00:00:00Z"]}

\* Bodies that carry neither identifier.
NeitherPayloads ==
    {[soc |-> 50, kwhDeliveredDc |-> 10, batteryTemp |-> 25,
      timestamp |-> "2026-01-01T00:00:00Z"],
     [kwhConsumedAc |-> 12, voltage |-> 230,
      timestamp |-> "2026-01-02T12:00:00Z"]}

Payloads ==
    VehiclePayloads \cup MeterPayloads \cup BothPayloads \cup NeitherPayloads

(***************************************************************************)
(* The store: INSERT, UPSERT ... ON CONFLICT (key), findOne                *)
(***************************************************************************)
\* Mutant of Insert: the newest row takes the place of the last one.
InsertOverLast(history, row) ==
    IF history = <<>> THEN <<row>>
    ELSE [history EXCEPT ![Len(history)] = row]

\* Mutant of Insert: a row equal to one already stored is not stored again.
InsertDistinct(history, row) ==
    IF \E i \in 1..Len(history) : history[i] = row THEN history
    ELSE Append(history, row)

Insert(history, row) == Append(history, row)

\* Mutant of Upsert: the conflict target is ignored and every row replaced.
UpsertReplaceAll(relation, conflictPath, row) == {row}

Upsert(relation, conflictPath, row) ==
    {r \in relation : r[conflictPath] # row[conflictPath]} \cup {row}

\* The rows findOne can return: none, or the row with that key.
FindOne(relation, column, value) == {r \in relation : r[column] = value}

(***************************************************************************)
(* Responses                                                               *)
(***************************************************************************)
\* call is the response sent in the step just taken: the operation, its
\* argument, the outcome, the response body and the wall clock at which it
\* was sent.  It is NoCall after a step that sends no response.  A statement
\* a handler awaits takes effect in the store while the call is suspended;
\* the call sends its response in a later step, when it is resumed, and the
\* statements of other calls take effect in between.
NoCall ==
    [op |-> "none", arg |-> <<>>, status |-> "none", body |-> <<>>, at |-> 0]

Reply(op, arg, status, body) ==
    [op |-> op, arg |-> arg, status |-> status, body |-> body, at |-> now]

InternalServerError == [message |-> "Internal server error"]

(***************************************************************************)
(* Calls in flight                                                         *)
(***************************************************************************)
\* The HTTP requests the server may be handling at one time.
Callers == {"A", "B"}

\* A caller with no request in flight.
Idle == [pc |-> "idle", data |-> <<>>]

\* A call whose last statement has taken effect, or has thrown, and which
\* waits to be resumed: the response it will send then.
Due(stage, op, arg, status, body) ==
    [pc |-> stage,
     data |-> [op |-> op, arg |-> arg, status |-> status, body |-> body]]

\* The stages in which a call waits to send its response.
ReturnStages ==
    {"ingest_return", "mapping_return", "getMapping_return",
     "performance_return"}

\* The call is resumed after its last await: return, or the exception
\* leaves the handler, and the response is sent.
Resumed(c, stage) ==
    /\ pending[c].pc = stage
    /\ call' = Reply(pending[c].data.op, pending[c].data.arg,
                     pending[c].data.status, pending[c].data.body)
    /\ pending' = [pending EXCEPT ![c] = Idle]

(***************************************************************************)
(* TelemetryService                                                        *)
(***************************************************************************)
\* new Date(data.timestamp); a body without the key gives new Date(undefined).
Timestamp(data) ==
    IF "timestamp" \in DOMAIN data THEN ParseDate(data.timestamp)
    ELSE InvalidDate

VehicleColumns == {"vehicleId", "soc", "kwhDeliveredDc", "batteryTemp"}

MeterColumns == {"meterId", "kwhConsumedAc", "voltage"}

\* The store rejects a row when a NOT NULL column has no value (the body has
\* no such key) or the timestamptz column is given an Invalid Date.
VehicleRowRejected(data) ==
    ~(VehicleColumns \subseteq DOMAIN data) \/ ~Timestamp(data).valid

MeterRowRejected(data) ==
    ~(MeterColumns \subseteq DOMAIN data) \/ ~Timestamp(data).valid

VehicleHistoryRow(data) ==
    [vehicleId |-> data.vehicleId, soc |-> data.soc,
     kwhDeliveredDc |-> data.kwhDeliveredDc,
     batteryTemp |-> data.batteryTemp,
     timestamp |-> Timestamp(data).time]

CurrentVehicleStatusRow(data) ==
    [vehicleId |-> data.vehicleId, soc |-> data.soc,
     lastKwhDeliveredDc |-> data.kwhDeliveredDc,
     batteryTemp |-> data.batteryTemp,
     lastUpdatedAt |-> Timestamp(data).time]

MeterHistoryRow(data) ==
    [meterId |-> data.meterId, kwhConsumedAc |-> data.kwhConsumedAc,
     voltage |-> data.voltage, timestamp |-> Timestamp(data).time]

CurrentMeterStatusRow(data) ==
    [meterId |-> data.meterId, lastKwhConsumedAc |-> data.kwhConsumedAc,
     voltage |-> data.voltage, lastUpdatedAt |-> Timestamp(data).time]

\* Mutant of VehicleStatusUpsert: the row is added, not written over the
\* vehicle's row.
VehicleStatusUpsertAdd(relation, data) ==
    relation \cup {CurrentVehicleStatusRow(data)}

\* Mutant of VehicleStatusUpsert: an existing row takes the new soc and
\* lastUpdatedAt only.
VehicleStatusUpsertPartial(relation, data) ==
    {IF r.vehicleId = data.vehicleId
     THEN [r EXCEPT !.soc = data.soc, !.lastUpdatedAt = Timestamp(data).time]
     ELSE r : r \in relation}
    \cup (IF \E r \in relation : r.vehicleId = data.vehicleId THEN {}
          ELSE {CurrentVehicleStatusRow(data)})

\* Mutant of VehicleStatusUpsert: overwrite only with a newer reading.
VehicleStatusUpsertIfNewer(relation, data) ==
    IF \E r \in relation : /\ r.vehicleId = data.vehicleId
                           /\ r.lastUpdatedAt > Timestamp(data).time
    THEN relation
    ELSE Upsert(relation, "vehicleId", CurrentVehicleStatusRow(data))

VehicleStatusUpsert(relation, data) ==
    Upsert(relation, "vehicleId", CurrentVehicleStatusRow(data))

MeterStatusUpsert(relation, data) ==
    Upsert(relation, "meterId", CurrentMeterStatusRow(data))

HistoryFull == Len(vehicleHistory) + Len(meterHistory) >= MaxRows

\* The readings stored and the readings of calls waiting for their history
\* insert are MaxRows together: no further reading is taken in.
RequestsFull ==
    Len(vehicleHistory) + Len(meterHistory)
    + Cardinality({c \in Callers : pending[c].pc \in {"vehicle_insert", "meter_insert"}})
    >= MaxRows

\* await this.vehicleHistoryRepo.insert(...)
insertVehicleHistory(c) ==
    LET data == pending[c].data
    IN  /\ pending[c].pc = "vehicle_insert"
        /\ IF VehicleRowRejected(data)
           THEN /\ pending' =
                      [pending EXCEPT
                          ![c] = Due("ingest_return", "ingest", data,
                                     "server_error", InternalServerError)]
                /\ call' = NoCall
                /\ UNCHANGED <<db, now>>
           ELSE /\ ~HistoryFull
                /\ vehicleHistory' =
                      Insert(vehicleHistory, VehicleHistoryRow(data))
                /\ pending' = [pending EXCEPT ![c].pc = "vehicle_upsert"]
                /\ call' = NoCall
                /\ UNCHANGED <<meterHistory, currentVehicleStatus, currentMeterStatus, mapping, now>>

\* await this.vehicleCurrentRepo.upsert(...) takes effect
upsertVehicleStatus(c) ==
    LET data == pending[c].data
    IN  /\ pending[c].pc = "vehicle_upsert"
        /\ currentVehicleStatus' = VehicleStatusUpsert(currentVehicleStatus, data)
        /\ pending' =
              [pending EXCEPT
                  ![c] = Due("ingest_return", "ingest", data, "ok",
                             [status |-> "vehicle telemetry ingested"])]
        /\ call' = NoCall
        /\ UNCHANGED <<vehicleHistory, meterHistory, currentMeterStatus,
                       mapping, now>>

\* await this.meterHistoryRepo.insert(...)
insertMeterHistory(c) ==
    LET data == pending[c].data
    IN  /\ pending[c].pc = "meter_insert"
        /\ IF MeterRowRejected(data)
           THEN /\ pending' =
                      [pending EXCEPT
                          ![c] = Due("ingest_return", "ingest", data,
                                     "server_error", InternalServerError)]
                /\ call' = NoCall
                /\ UNCHANGED <<db, now>>
           ELSE /\ ~HistoryFull
                /\ meterHistory' = Insert(meterHistory, MeterHistoryRow(data))
                /\ pending' = [pending EXCEPT ![c].pc = "meter_upsert"]
                /\ call' = NoCall
                /\ UNCHANGED <<vehicleHistory, currentVehicleStatus, currentMeterStatus, mapping, now>>

\* await this.meterCurrentRepo.upsert(...) takes effect
upsertMeterStatus(c) ==
    LET data == pending[c].data
    IN  /\ pending[c].pc = "meter_upsert"
        /\ currentMeterStatus' = MeterStatusUpsert(currentMeterStatus, data)
        /\ pending' =
              [pending EXCEPT
                  ![c] = Due("ingest_return", "ingest", data, "ok",
                             [status |-> "meter telemetry ingested"])]
        /\ call' = NoCall
        /\ UNCHANGED <<vehicleHistory, meterHistory, currentVehicleStatus,
                       mapping, now>>

InsertStages == {"vehicle_insert", "meter_insert"}

UpsertStages == {"vehicle_upsert", "meter_upsert"}

\* Mutant of insertFails: the error is swallowed and the handler goes on to
\* its status upsert.
insertFailsContinue(c) ==
    /\ pending[c].pc \in InsertStages
    /\ pending' = [pending EXCEPT
                      ![c].pc = IF pending[c].pc = "vehicle_insert"
                                THEN "vehicle_upsert" ELSE "meter_upsert"]
    /\ call' = NoCall
    /\ UNCHANGED <<db, now>>

\* await ...HistoryRepo.insert(...) throws
insertFails(c) ==
    /\ pending[c].pc \in InsertStages
    /\ pending' =
          [pending EXCEPT
              ![c] = Due("ingest_return", "ingest", pending[c].data,
                         "server_error", InternalServerError)]
    /\ call' = NoCall
    /\ UNCHANGED <<db, now>>

\* Mutant of upsertFails: the handler is run again from its first statement.
upsertFailsRetry(c) ==
    /\ pending[c].pc \in UpsertStages
    /\ pending' = [pending EXCEPT
                      ![c].pc = IF pending[c].pc = "vehicle_upsert"
                                THEN "vehicle_insert" ELSE "meter_insert"]
    /\ call' = NoCall
    /\ UNCHANGED <<db, now>>

\* Mutant of upsertFails: the history row of the call is taken back.
upsertFailsRollback(c) ==
    /\ pending[c].pc \in UpsertStages
    /\ pending' =
          [pending EXCEPT
              ![c] = Due("ingest_return", "ingest", pending[c].data,
                         "server_error", InternalServerError)]
    /\ call' = NoCall
    /\ IF pending[c].pc = "vehicle_upsert"
       THEN /\ vehicleHistory' =
                  SelectSeq(vehicleHistory,
                            LAMBDA r : r # VehicleHistoryRow(pending[c].data))
            /\ UNCHANGED meterHistory
       ELSE /\ meterHistory' =
                  SelectSeq(meterHistory,
                            LAMBDA r : r # MeterHistoryRow(pending[c].data))
            /\ UNCHANGED vehicleHistory
    /\ UNCHANGED <<currentVehicleStatus, currentMeterStatus, mapping, now>>

\* await ...CurrentRepo.upsert(...) throws
upsertFails(c) ==
    /\ pending[c].pc \in UpsertStages
    /\ pending' =
          [pending EXCEPT
              ![c] = Due("ingest_return", "ingest", pending[c].data,
                         "server_error", InternalServerError)]
    /\ call' = NoCall
    /\ UNCHANGED <<db, now>>

\* return { status }, or the exception of a statement leaves the handler
returnIngest(c) ==
    /\ Resumed(c, "ingest_return")
    /\ UNCHANGED <<db, now>>

(***************************************************************************)
(* TelemetryController                                                     *)
(***************************************************************************)
\* 'meterId' in payload, 'vehicleId' in payload
HasKey(payload, key) == key \in DOMAIN payload

\* Mutant of Route: the vehicle check comes first.
RouteVehicleFirst(payload) ==
    IF HasKey(payload, "vehicleId") THEN "vehicle"
    ELSE IF HasKey(payload, "meterId") THEN "meter"
    ELSE "unknown"

\* Mutant of Route: a body without meterId is taken for vehicle telemetry.
RouteDefaultVehicle(payload) ==
    IF HasKey(payload, "meterId") THEN "meter" ELSE "vehicle"

Route(payload) ==
    IF HasKey(payload, "meterId") THEN "meter"
    ELSE IF HasKey(payload, "vehicleId") THEN "vehicle"
    ELSE "unknown"

\* TelemetryController.ingest up to the first await of the service: the body
\* is routed and the call waits for its history insert.
ingest(c, payload) ==
    /\ pending[c].pc = "idle"
    /\ CASE Route(payload) = "meter" ->
               /\ ~RequestsFull
               /\ pending' = [pending EXCEPT
                                 ![c] = [pc |-> "meter_insert", data |-> payload]]
               /\ call' = NoCall
               /\ UNCHANGED <<db, now>>
         [] Route(payload) = "vehicle" ->
               /\ ~RequestsFull
               /\ pending' = [pending EXCEPT
                                 ![c] = [pc |-> "vehicle_insert", data |-> payload]]
               /\ call' = NoCall
               /\ UNCHANGED <<db, now>>
         [] OTHER ->
               /\ call' = Reply("ingest", payload, "bad_request",
                      [message |-> "Unknown telemetry type. Must include either meterId or vehicleId"])
               /\ UNCHANGED <<db, now, pending>>

(***************************************************************************)
(* Number(x.toFixed(2)) of the quotient num / den, den > 0, in hundredths. *)
(* The quotient is an IEEE 754 double: toFixed rounds the double nearest   *)
(* to num / den, not num / den, to the nearest hundredth, a tie of the     *)
(* double going away from zero.  The two differ when num / den lies        *)
(* half-way between two hundredths and is no double (1.005 is stored as    *)
(* 1.00499999999999989..., and becomes 1).                                 *)
(***************************************************************************)
Abs(n) == IF n < 0 THEN 0 - n ELSE n

\* a / b, a > 0, with a or b doubled until b <= a < 2b: the significand of
\* the quotient.
RECURSIVE Normalized(_, _)
Normalized(a, b) ==
    IF 2 * b <= a THEN Normalized(a, 2 * b)
    ELSE IF a < b THEN Normalized(2 * a, b)
    ELSE [a |-> a, b |-> b]

\* Long division by b: what is left of the quotient after i more binary
\* digits, and the last digit written.
RECURSIVE MantissaRest(_, _, _, _)
MantissaRest(rem, b, bit, i) ==
    IF i = 0 THEN [rem |-> rem, bit |-> bit]
    ELSE MantissaRest((2 * rem) % b, b, IF 2 * rem >= b THEN 1 ELSE 0, i - 1)

\* The double nearest to a / b (53 significant digits, ties to even) is not
\* below a / b.
DoubleNotBelow(a, b) ==
    LET n == Normalized(a, b)
        m == MantissaRest(n.a - n.b, n.b, 1, 52)
    IN  \/ m.rem = 0
        \/ 2 * m.rem > n.b
        \/ 2 * m.rem = n.b /\ m.bit = 1

ToFixed2(num, den) ==
    LET a == Abs(num)
        k == (100 * a) \div den
        r == (100 * a) % den
        n == IF a = 0 \/ 2 * r < den THEN k
             ELSE IF 2 * r > den THEN k + 1
             ELSE IF DoubleNotBelow(a, den) THEN k + 1
             ELSE k
    IN  IF num < 0 THEN 0 - n ELSE n

(***************************************************************************)
(* SQL aggregates over the selected rows of a history relation             *)
(***************************************************************************)
RECURSIVE SumOf(_, _)
SumOf(rows, column) ==
    IF rows = <<>> THEN 0
    ELSE Head(rows)[column] + SumOf(Tail(rows), column)

\* Mutant of VehicleRowsSince: the time filter is missing.
VehicleRowsAllTime(history, vehicleId, since) ==
    SelectSeq(history, LAMBDA r : r.vehicleId = vehicleId)

\* Mutant of VehicleRowsSince: only rows that the vehicle's status row
\* reflects are read.
VehicleRowsReflected(history, vehicleId, since) ==
    SelectSeq(history,
              LAMBDA r : /\ r.vehicleId = vehicleId
                         /\ r.timestamp >= since
                         /\ \E s \in currentVehicleStatus :
                               /\ s.vehicleId = r.vehicleId
                               /\ s.lastUpdatedAt = r.timestamp
                               /\ s.lastKwhDeliveredDc = r.kwhDeliveredDc)

\* Mutant of VehicleRowsSince: the boundary instant is excluded.
VehicleRowsAfter(history, vehicleId, since) ==
    SelectSeq(history,
              LAMBDA r : r.vehicleId = vehicleId /\ r.timestamp > since)

\* WHERE v.vehicleId = :vehicleId AND v.timestamp >= :since
VehicleRowsSince(history, vehicleId, since) ==
    SelectSeq(history,
              LAMBDA r : r.vehicleId = vehicleId /\ r.timestamp >= since)

\* Mutant of MeterRowsSince: the meter filter is missing.
MeterRowsAnyMeter(history, meterId, since) ==
    SelectSeq(history, LAMBDA r : r.timestamp >= since)

\* WHERE m.meterId = :meterId AND m.timestamp >= :since
MeterRowsSince(history, meterId, since) ==
    SelectSeq(history,
              LAMBDA r : r.meterId = meterId /\ r.timestamp >= since)

\* COALESCE(AVG(column), 0) as the quotient num / den
AvgOf(rows, column) ==
    IF rows = <<>> THEN [num |-> 0, den |-> 1]
    ELSE [num |-> SumOf(rows, column), den |-> Len(rows)]

(***************************************************************************)
(* AnalyticsService                                                        *)
(***************************************************************************)
NotFound(vehicleId) ==
    [message |-> "No meter mapped to vehicle", vehicleId |-> vehicleId]

Created(vehicleId, meterId) ==
    [vehicleId |-> vehicleId, meterId |-> meterId,
     message |-> "Vehicle-meter mapping created/updated successfully"]

\* Mutant of createMapping: an existing mapping row is kept (insert if absent).
createMappingKeepExisting(c, vehicleId, meterId) ==
    /\ pending[c].pc = "idle"
    /\ mapping' = IF FindOne(mapping, "vehicleId", vehicleId) = {}
                  THEN mapping \cup {[vehicleId |-> vehicleId, meterId |-> meterId]}
                  ELSE mapping
    /\ pending' =
          [pending EXCEPT
              ![c] = Due("mapping_return", "createMapping",
                         [vehicleId |-> vehicleId, meterId |-> meterId],
                         "ok", Created(vehicleId, meterId))]
    /\ call' = NoCall
    /\ UNCHANGED <<vehicleHistory, meterHistory, currentVehicleStatus,
                   currentMeterStatus, now>>

\* Mutant of createMapping: the conflict path is meterId (one vehicle per meter).
createMappingUniqueMeter(c, vehicleId, meterId) ==
    /\ pending[c].pc = "idle"
    /\ mapping' = Upsert(mapping, "meterId",
                         [vehicleId |-> vehicleId, meterId |-> meterId])
    /\ pending' =
          [pending EXCEPT
              ![c] = Due("mapping_return", "createMapping",
                         [vehicleId |-> vehicleId, meterId |-> meterId],
                         "ok", Created(vehicleId, meterId))]
    /\ call' = NoCall
    /\ UNCHANGED <<vehicleHistory, meterHistory, currentVehicleStatus,
                   currentMeterStatus, now>>

\* await this.mappingRepo.upsert(...) takes effect
createMapping(c, vehicleId, meterId) ==
    /\ pending[c].pc = "idle"
    /\ mapping' = Upsert(mapping, "vehicleId",
                         [vehicleId |-> vehicleId, meterId |-> meterId])
    /\ pending' =
          [pending EXCEPT
              ![c] = Due("mapping_return", "createMapping",
                         [vehicleId |-> vehicleId, meterId |-> meterId],
                         "ok", Created(vehicleId, meterId))]
    /\ call' = NoCall
    /\ UNCHANGED <<vehicleHistory, meterHistory, currentVehicleStatus,
                   currentMeterStatus, now>>

\* await this.mappingRepo.upsert(...) throws
createMappingFails(c, vehicleId, meterId) ==
    /\ pending[c].pc = "idle"
    /\ pending' =
          [pending EXCEPT
              ![c] = Due("mapping_return", "createMapping",
                         [vehicleId |-> vehicleId, meterId |-> meterId],
                         "server_error", InternalServerError)]
    /\ call' = NoCall
    /\ UNCHANGED <<db, now>>

\* return { vehicleId, meterId, message }, or the exception leaves the handler
returnMapping(c) ==
    /\ Resumed(c, "mapping_return")
    /\ UNCHANGED <<db, now>>

\* Mutant of getMapping: the row is looked up by meterId.
getMappingByMeter(c, vehicleId) ==
    LET found == FindOne(mapping, "meterId", vehicleId)
    IN  /\ pending[c].pc = "idle"
        /\ pending' =
              [pending EXCEPT
                  ![c] = IF found = {}
                         THEN Due("getMapping_return", "getMapping", vehicleId,
                                  "not_found", NotFound(vehicleId))
                         ELSE Due("getMapping_return", "getMapping", vehicleId,
                                  "ok", CHOOSE r \in found : TRUE)]
        /\ call' = NoCall
        /\ UNCHANGED <<db, now>>

\* const mapping = await this.mappingRepo.findOne(...): the read takes
\* effect; the call will throw NotFoundException or return the row.
getMapping(c, vehicleId) ==
    LET found == FindOne(mapping, "vehicleId", vehicleId)
    IN  /\ pending[c].pc = "idle"
        /\ pending' =
              [pending EXCEPT
                  ![c] = IF found = {}
                         THEN Due("getMapping_return", "getMapping", vehicleId,
                                  "not_found", NotFound(vehicleId))
                         ELSE Due("getMapping_return", "getMapping", vehicleId,
                                  "ok", CHOOSE r \in found : TRUE)]
        /\ call' = NoCall
        /\ UNCHANGED <<db, now>>

\* await this.mappingRepo.findOne(...) of getMapping throws
getMappingFails(c, vehicleId) ==
    /\ pending[c].pc = "idle"
    /\ pending' =
          [pending EXCEPT
              ![c] = Due("getMapping_return", "getMapping", vehicleId,
                         "server_error", InternalServerError)]
    /\ call' = NoCall
    /\ UNCHANGED <<db, now>>

\* throw new NotFoundException(...), return mapping, or the exception of the
\* read leaves the handler
returnGetMapping(c) ==
    /\ Resumed(c, "getMapping_return")
    /\ UNCHANGED <<db, now>>

\* Mutant of EfficiencyRatio: the guard excludes only a zero divisor.
EfficiencyRatioNonZero(totalDc, totalAc) ==
    IF totalAc # 0
    THEN (IF totalAc > 0 THEN ToFixed2(totalDc, totalAc)
          ELSE 0 - ToFixed2(totalDc, 0 - totalAc))
    ELSE 0

EfficiencyRatio(totalDc, totalAc) ==
    IF totalAc > 0 THEN ToFixed2(totalDc, totalAc) ELSE 0

\* The body getVehiclePerformance returns for a vehicle mapped to meterId.
Performance(vehicleId, meterId, vHistory, mHistory, clock) ==
    LET since    == clock - DayMs
        vRows    == VehicleRowsSince(vHistory, vehicleId, since)
        mRows    == MeterRowsSince(mHistory, meterId, since)
        totalDc  == SumOf(vRows, "kwhDeliveredDc")
        avg_temp == AvgOf(vRows, "batteryTemp")
        totalAc  == SumOf(mRows, "kwhConsumedAc")
    IN  [vehicleId |-> vehicleId,
         period |-> "last_24_hours",
         energy |-> [acConsumed |-> ToFixed2(totalAc, 1),
                     dcDelivered |-> ToFixed2(totalDc, 1),
                     efficiencyRatio |-> EfficiencyRatio(totalDc, totalAc)],
         battery |-> [avgTemperature |-> ToFixed2(avg_temp.num, avg_temp.den)]]

(***************************************************************************)
(* AnalyticsService.getVehiclePerformance, one step per statement the      *)
(* handler awaits                                                          *)
(***************************************************************************)
QueryStages == {"perf_vehicle", "perf_meter"}

\* getVehiclePerformance(vehicleId) is called:
\* const since = new Date(Date.now() - 24 * 60 * 60 * 1000); the clock is
\* read before the first statement is awaited.
getVehiclePerformance(c, vehicleId) ==
    /\ pending[c].pc = "idle"
    /\ pending' =
          [pending EXCEPT
              ![c] = [pc |-> "perf_lookup",
                      data |-> [vehicleId |-> vehicleId, clock |-> now]]]
    /\ call' = NoCall
    /\ UNCHANGED <<db, now>>

\* Mutant of lookupMapping: an unmapped vehicle is taken to have no meter
\* instead of being answered not-found.
lookupMappingUnmapped(c) ==
    LET data  == pending[c].data
        found == FindOne(mapping, "vehicleId", data.vehicleId)
    IN  /\ pending[c].pc = "perf_lookup"
        /\ pending' =
              [pending EXCEPT
                  ![c] = [pc |-> "perf_vehicle",
                          data |-> [vehicleId |-> data.vehicleId,
                                    meterId |->
                                        IF found = {} THEN "none"
                                        ELSE (CHOOSE r \in found : TRUE).meterId,
                                    clock |-> data.clock]]]
        /\ call' = NoCall
        /\ UNCHANGED <<db, now>>

\* const mapping = await this.mappingRepo.findOne(...): the read takes
\* effect; the call will throw NotFoundException, or goes on with the meterId
\* it has read and the since it computed when it was called.
lookupMapping(c) ==
    LET data  == pending[c].data
        found == FindOne(mapping, "vehicleId", data.vehicleId)
    IN  /\ pending[c].pc = "perf_lookup"
        /\ pending' =
              [pending EXCEPT
                  ![c] = IF found = {}
                         THEN Due("performance_return",
                                  "getVehiclePerformance", data.vehicleId,
                                  "not_found", NotFound(data.vehicleId))
                         ELSE [pc |-> "perf_vehicle",
                               data |-> [vehicleId |-> data.vehicleId,
                                         meterId |->
                                             (CHOOSE r \in found : TRUE).meterId,
                                         clock |-> data.clock]]]
        /\ call' = NoCall
        /\ UNCHANGED <<db, now>>

\* await this.mappingRepo.findOne(...) of getVehiclePerformance throws
lookupMappingFails(c) ==
    /\ pending[c].pc = "perf_lookup"
    /\ pending' =
          [pending EXCEPT
              ![c] = Due("performance_return", "getVehiclePerformance",
                         pending[c].data.vehicleId, "server_error",
                         InternalServerError)]
    /\ call' = NoCall
    /\ UNCHANGED <<db, now>>

\* Mutant of queryVehicleHistory: the query takes the rows it reads out of
\* the history.
queryVehicleHistoryTake(c) ==
    LET data == pending[c].data
    IN  /\ pending[c].pc = "perf_vehicle"
        /\ pending' =
              [pending EXCEPT
                  ![c] = [pc |-> "perf_meter",
                          data |-> [vehicleId |-> data.vehicleId,
                                    meterId |-> data.meterId,
                                    clock |-> data.clock,
                                    vehicleRows |->
                                        VehicleRowsSince(vehicleHistory,
                                                         data.vehicleId,
                                                         data.clock - DayMs)]]]
        /\ vehicleHistory' =
              SelectSeq(vehicleHistory,
                        LAMBDA r : r.vehicleId # data.vehicleId
                                   \/ r.timestamp < data.clock - DayMs)
        /\ call' = NoCall
        /\ UNCHANGED <<meterHistory, currentVehicleStatus, currentMeterStatus,
                       mapping, now>>

\* const vehicleStats = await this.vehicleHistoryRepo...getRawOne(): the
\* call keeps what the query has read.
queryVehicleHistory(c) ==
    LET data == pending[c].data
    IN  /\ pending[c].pc = "perf_vehicle"
        /\ pending' =
              [pending EXCEPT
                  ![c] = [pc |-> "perf_meter",
                          data |-> [vehicleId |-> data.vehicleId,
                                    meterId |-> data.meterId,
                                    clock |-> data.clock,
                                    vehicleRows |->
                                        VehicleRowsSince(vehicleHistory,
                                                         data.vehicleId,
                                                         data.clock - DayMs)]]]
        /\ call' = NoCall
        /\ UNCHANGED <<db, now>>

\* Mutant of queryMeterHistory: the meter is looked up again at the query.
queryMeterHistoryOfCurrentMapping(c) ==
    LET data  == pending[c].data
        found == FindOne(mapping, "vehicleId", data.vehicleId)
    IN  /\ pending[c].pc = "perf_meter"
        /\ pending' =
              [pending EXCEPT
                  ![c] = Due("performance_return", "getVehiclePerformance",
                             data.vehicleId, "ok",
                             Performance(data.vehicleId,
                                         (CHOOSE r \in found : TRUE).meterId,
                                         data.vehicleRows, meterHistory,
                                         data.clock))]
        /\ call' = NoCall
        /\ UNCHANGED <<db, now>>

\* const meterStats = await this.meterHistoryRepo...getRawOne(): the read
\* takes effect, and the call has all the numbers it will return.
queryMeterHistory(c) ==
    LET data == pending[c].data
    IN  /\ pending[c].pc = "perf_meter"
        /\ pending' =
              [pending EXCEPT
                  ![c] = Due("performance_return", "getVehiclePerformance",
                             data.vehicleId, "ok",
                             Performance(data.vehicleId, data.meterId,
                                         data.vehicleRows, meterHistory,
                                         data.clock))]
        /\ call' = NoCall
        /\ UNCHANGED <<db, now>>

\* a query of getVehiclePerformance throws
queryFails(c) ==
    /\ pending[c].pc \in QueryStages
    /\ pending' =
          [pending EXCEPT
              ![c] = Due("performance_return", "getVehiclePerformance",
                         pending[c].data.vehicleId, "server_error",
                         InternalServerError)]
    /\ call' = NoCall
    /\ UNCHANGED <<db, now>>

\* throw new NotFoundException(...), return { vehicleId, period, energy,
\* battery }, or the exception of a statement leaves the handler
returnPerformance(c) ==
    /\ Resumed(c, "performance_return")
    /\ UNCHANGED <<db, now>>

(***************************************************************************)
(* AnalyticsController: POST and PUT mappings.  The body is an instance of *)
(* CreateVehicleMeterMappingDto, which the global ValidationPipe checks    *)
(* before the handler runs.                                                *)
(***************************************************************************)
\* Bodies of mapping requests: complete ones, one without vehicleId, one
\* without meterId, and two with an empty string.
MappingBodies ==
    {[vehicleId |-> v, meterId |-> m] : v \in VehicleIds, m \in MeterIds}
    \cup {[meterId |-> "M-2"],
          [vehicleId |-> "EV-1"],
          [vehicleId |-> "", meterId |-> "M-1"],
          [vehicleId |-> "EV-2", meterId |-> ""]}

\* Bodies of PUT requests: the documented one, with meterId only, one with
\* an empty meterId, and complete ones.
UpdateBodies ==
    {[meterId |-> "M-2"], [vehicleId |-> "EV-1", meterId |-> ""]}
    \cup {[vehicleId |-> v, meterId |-> m] : v \in VehicleIds, m \in MeterIds}

\* @IsString() @IsNotEmpty() on a property of the body
IsNotEmptyString(dto, key) == key \in DOMAIN dto /\ dto[key] # ""

\* Mutant of ValidMappingDto: @IsNotEmpty() is missing.
ValidMappingDtoAllowEmpty(dto) == {"vehicleId", "meterId"} \subseteq DOMAIN dto

ValidMappingDto(dto) ==
    IsNotEmptyString(dto, "vehicleId") /\ IsNotEmptyString(dto, "meterId")

ValidationFailed == [error |-> "Bad Request"]

\* main.ts registers a global ValidationPipe: a body parameter typed with a
\* DTO class is checked against the decorators of the class before the handler
\* runs.
ValidationPipe(dto) == ValidMappingDto(dto)

\* @Post('mappings') createMapping(@Body() dto)
postMapping(c, dto) ==
    IF ValidationPipe(dto)
    THEN \/ createMapping(c, dto.vehicleId, dto.meterId)
         \/ createMappingFails(c, dto.vehicleId, dto.meterId)
    ELSE /\ pending[c].pc = "idle"
         /\ call' = Reply("postMapping", dto, "bad_request", ValidationFailed)
         /\ UNCHANGED <<db, now, pending>>

\* @Put('mappings/:vehicleId') updateMapping(@Param('vehicleId'), @Body() dto)
updateMapping(c, vehicleId, dto) ==
    IF ValidationPipe(dto)
    THEN \/ createMapping(c, vehicleId, dto.meterId)
         \/ createMappingFails(c, vehicleId, dto.meterId)
    ELSE /\ pending[c].pc = "idle"
         /\ call' = Reply("updateMapping",
                          [vehicleId |-> vehicleId, dto |-> dto],
                          "bad_request", ValidationFailed)
         /\ UNCHANGED <<db, now, pending>>

(***************************************************************************)
(* The wall clock                                                          *)
(***************************************************************************)
\* Time passes.  Calls in flight stay in flight.
Tick ==
    /\ \E t \in Clock : t > now /\ now' = t
    /\ call' = NoCall
    /\ UNCHANGED <<db, pending>>

(***************************************************************************)
(* The service.  NestJS serves requests concurrently: a call in flight     *)
(* takes one step per statement its handler awaits, in which the statement *)
(* takes effect, and one step in which it is resumed after its last        *)
(* statement and sends its response; the steps of the calls in flight      *)
(* interleave.  An awaited statement may throw (store unreachable,         *)
(* statement refused); nothing catches it, and the call, once resumed,     *)
(* ends with a server error.                                               *)
(***************************************************************************)
Init ==
    /\ vehicleHistory = <<>>
    /\ meterHistory = <<>>
    /\ currentVehicleStatus = {}
    /\ currentMeterStatus = {}
    /\ mapping = {}
    /\ now = 24 * HourMs
    /\ call = NoCall
    /\ pending = [c \in Callers |-> Idle]

InsertVehicleHistory == \E c \in Callers : insertVehicleHistory(c)

UpsertVehicleStatus == \E c \in Callers : upsertVehicleStatus(c)

InsertMeterHistory == \E c \in Callers : insertMeterHistory(c)

UpsertMeterStatus == \E c \in Callers : upsertMeterStatus(c)

InsertFails == \E c \in Callers : insertFails(c)

UpsertFails == \E c \in Callers : upsertFails(c)

ReturnIngest == \E c \in Callers : returnIngest(c)

\* getVehiclePerformance is called for a vehicle.
GetPerformance ==
    \E c \in Callers, v \in VehicleIds : getVehiclePerformance(c, v)

\* getVehiclePerformance is called for the vehicle under observation.
GetVehiclePerformance == \E c \in Callers : getVehiclePerformance(c, "EV-1")

LookupMapping == \E c \in Callers : lookupMapping(c)

LookupMappingFails == \E c \in Callers : lookupMappingFails(c)

QueryVehicleHistory == \E c \in Callers : queryVehicleHistory(c)

QueryMeterHistory == \E c \in Callers : queryMeterHistory(c)

QueryFails == \E c \in Callers : queryFails(c)

ReturnPerformance == \E c \in Callers : returnPerformance(c)

GetMapping ==
    \E c \in Callers, v \in VehicleIds :
        getMapping(c, v) \/ getMappingFails(c, v)

ReturnGetMapping == \E c \in Callers : returnGetMapping(c)

\* The vehicle under observation is mapped to a meter.
MapVehicle ==
    \E c \in Callers, m \in MeterIds :
        createMapping(c, "EV-1", m) \/ createMappingFails(c, "EV-1", m)

ReturnMapping == \E c \in Callers : returnMapping(c)

\* The readings sent to the service: two of EV-1, one of M-1 and one of M-2.
ServicePayloads ==
    {p \in VehiclePayloads :
        /\ p.vehicleId = "EV-1"
        /\ p.timestamp \in {"2026-01-01T00:00:00Z", "2026-01-02T12:00:00Z"}}
    \cup {p \in MeterPayloads : p.meterId = "M-1" /\ p.kwhConsumedAc = 12}
    \cup {p \in MeterPayloads : p.meterId = "M-2" /\ p.kwhConsumedAc = 12}

\* getMapping for the vehicle the mapping calls are about.
GetVehicleMapping ==
    \E c \in Callers : getMapping(c, "EV-1") \/ getMappingFails(c, "EV-1")

Ingest == \E c \in Callers, payload \in ServicePayloads : ingest(c, payload)

Next ==
    \/ Ingest
    \/ InsertVehicleHistory
    \/ UpsertVehicleStatus
    \/ InsertMeterHistory
    \/ UpsertMeterStatus
    \/ InsertFails
    \/ UpsertFails
    \/ ReturnIngest
    \/ MapVehicle
    \/ ReturnMapping
    \/ GetVehicleMapping
    \/ ReturnGetMapping
    \/ GetVehiclePerformance
    \/ LookupMapping
    \/ LookupMappingFails
    \/ QueryVehicleHistory
    \/ QueryMeterHistory
    \/ QueryFails
    \/ ReturnPerformance

Spec == Init /\ [][Next]_vars

(***************************************************************************)
(* Ingestion alone, with bodies of every kind                              *)
(***************************************************************************)
\* Two readings of EV-1, one of EV-2 whose timestamp is no date, two readings
\* of M-1, one of M-2, a body with no identifier and the bodies with both.
ConcurrentPayloads ==
    {p \in VehiclePayloads :
        p.vehicleId = "EV-1" /\ p.timestamp # "2026-01-01T05:30:00+05:30"}
    \cup {p \in VehiclePayloads : p.timestamp = "not-a-date"}
    \cup {p \in MeterPayloads :
             p.meterId = "M-1" \/ p.timestamp = "2026-01-02T12:00:00Z"}
    \cup {p \in NeitherPayloads : "soc" \in DOMAIN p}
    \cup BothPayloads

Receive == \E c \in Callers, payload \in ConcurrentPayloads : ingest(c, payload)

NextConcurrent ==
    \/ Receive
    \/ InsertVehicleHistory
    \/ UpsertVehicleStatus
    \/ InsertMeterHistory
    \/ UpsertMeterStatus
    \/ InsertFails
    \/ UpsertFails
    \/ ReturnIngest

SpecConcurrent == Init /\ [][NextConcurrent]_vars

(***************************************************************************)
(* The mapping endpoints, with request bodies of every kind                *)
(***************************************************************************)
CreateMapping == \E c \in Callers, dto \in MappingBodies : postMapping(c, dto)

UpdateMapping ==
    \E c \in Callers, v \in VehicleIds, dto \in UpdateBodies :
        updateMapping(c, v, dto)

\* One reading of EV-1 and one of M-1.
MappingPayloads ==
    {p \in ServicePayloads :
        \/ Route(p) = "vehicle" /\ p.timestamp = "2026-01-01T00:00:00Z"
        \/ Route(p) = "meter" /\ p.meterId = "M-1"}

IngestFirst == \E c \in Callers, payload \in MappingPayloads : ingest(c, payload)

NextMapping ==
    \/ CreateMapping
    \/ UpdateMapping
    \/ ReturnMapping
    \/ GetMapping
    \/ ReturnGetMapping
    \/ GetPerformance
    \/ LookupMapping
    \/ LookupMappingFails
    \/ QueryVehicleHistory
    \/ QueryMeterHistory
    \/ QueryFails
    \/ ReturnPerformance
    \/ IngestFirst
    \/ InsertVehicleHistory
    \/ UpsertVehicleStatus
    \/ InsertMeterHistory
    \/ UpsertMeterStatus
    \/ InsertFails
    \/ UpsertFails
    \/ ReturnIngest

SpecMapping == Init /\ [][NextMapping]_vars

(***************************************************************************)
(* The service as time passes                                              *)
(***************************************************************************)
\* Two readings of EV-1, one of M-1, and the negative reading of M-2.
WindowPayloads ==
    {p \in ServicePayloads : Route(p) = "vehicle"}
    \cup {p \in MeterPayloads :
             \/ p.meterId = "M-1" /\ p.kwhConsumedAc = 12
             \/ p.kwhConsumedAc < 0}

IngestOverTime ==
    \E c \in Callers, payload \in WindowPayloads : ingest(c, payload)

NextWindow ==
    \/ IngestOverTime
    \/ InsertVehicleHistory
    \/ UpsertVehicleStatus
    \/ InsertMeterHistory
    \/ UpsertMeterStatus
    \/ InsertFails
    \/ UpsertFails
    \/ ReturnIngest
    \/ MapVehicle
    \/ ReturnMapping
    \/ GetVehiclePerformance
    \/ LookupMapping
    \/ LookupMappingFails
    \/ QueryVehicleHistory
    \/ QueryMeterHistory
    \/ QueryFails
    \/ ReturnPerformance
    \/ Tick

SpecWindow == Init /\ [][NextWindow]_vars

(***************************************************************************)
(* Analytics for both vehicles and both meters as time passes              *)
(***************************************************************************)
\* Two readings of EV-1, a day and a half apart and with different battery
\* temperatures, and one reading of each meter.  EV-2 has no reading of its
\* own: every vehicle row stored belongs to the other vehicle.
AggregatePayloads ==
    {p \in VehiclePayloads :
        p.vehicleId = "EV-1" /\ p.timestamp \in {"2026-01-01T00:00:00Z",
                                                  "2026-01-02T12:00:00Z"}}
    \cup {p \in MeterPayloads : p.kwhConsumedAc = 12}

IngestReading ==
    \E c \in Callers, payload \in AggregatePayloads : ingest(c, payload)

\* EV-1 is mapped to M-1; EV-2 is mapped to either meter, so that it shares
\* M-1 with EV-1 or is moved from one meter to the other.
MapAny ==
    \E c \in Callers, v \in VehicleIds, m \in MeterIds :
        /\ v = "EV-1" => m = "M-1"
        /\ createMapping(c, v, m) \/ createMappingFails(c, v, m)

NextAggregates ==
    \/ IngestReading
    \/ InsertVehicleHistory
    \/ UpsertVehicleStatus
    \/ InsertMeterHistory
    \/ UpsertMeterStatus
    \/ InsertFails
    \/ UpsertFails
    \/ ReturnIngest
    \/ MapAny
    \/ ReturnMapping
    \/ GetPerformance
    \/ LookupMapping
    \/ LookupMappingFails
    \/ QueryVehicleHistory
    \/ QueryMeterHistory
    \/ QueryFails
    \/ ReturnPerformance
    \/ Tick

SpecAggregates == Init /\ [][NextAggregates]_vars

(***************************************************************************)
(* Properties                                                              *)
(***************************************************************************)
Max(S) == CHOOSE x \in S : \A y \in S : y <= x

IsPrefix(s, t) == Len(s) <= Len(t) /\ SubSeq(t, 1, Len(s)) = s

Indices(history, column, id) ==
    {i \in 1..Len(history) : history[i][column] = id}

IsIngestOk == call.op = "ingest" /\ call.status = "ok"

OnlyVehicle(p) == "vehicleId" \in DOMAIN p /\ "meterId" \notin DOMAIN p

OnlyMeter(p) == "meterId" \in DOMAIN p /\ "vehicleId" \notin DOMAIN p

BothIds(p) == "meterId" \in DOMAIN p /\ "vehicleId" \in DOMAIN p

NoId(p) == "meterId" \notin DOMAIN p /\ "vehicleId" \notin DOMAIN p

\* The current-status row a history row stands for.
VehicleStatusOf(h) ==
    [vehicleId |-> h.vehicleId, soc |-> h.soc,
     lastKwhDeliveredDc |-> h.kwhDeliveredDc, batteryTemp |-> h.batteryTemp,
     lastUpdatedAt |-> h.timestamp]

MeterStatusOf(h) ==
    [meterId |-> h.meterId, lastKwhConsumedAc |-> h.kwhConsumedAc,
     voltage |-> h.voltage, lastUpdatedAt |-> h.timestamp]

\* The rows a payload is expected to produce, field by field.
ExpectedVehicleRow(p) ==
    [vehicleId |-> p.vehicleId, soc |-> p.soc,
     kwhDeliveredDc |-> p.kwhDeliveredDc, batteryTemp |-> p.batteryTemp,
     timestamp |-> ParseDate(p.timestamp).time]

ExpectedMeterRow(p) ==
    [meterId |-> p.meterId, kwhConsumedAc |-> p.kwhConsumedAc,
     voltage |-> p.voltage, timestamp |-> ParseDate(p.timestamp).time]

\* The rows of a relation for one vehicle, and the rows for all but one device.
MappingOf(rel, v) == {r \in rel : r.vehicleId = v}

Others(rel, column, id) == {r \in rel : r[column] # id}

AllIdle == \A c \in Callers : pending[c].pc = "idle"

(***************************************************************************)
(* The steps of a call: what caller c does in the step taken               *)
(***************************************************************************)
(* The steps of a call: what caller c does in the step taken               *)
(***************************************************************************)
IngestStages ==
    {"vehicle_insert", "vehicle_upsert", "meter_insert", "meter_upsert",
     "ingest_return"}

\* The reading of an ingestion call in flight.
ReadingOf(c) ==
    IF pending[c].pc = "ingest_return" THEN pending[c].data.arg
    ELSE pending[c].data

\* c's history insert takes effect.
VehicleInserts(c) ==
    pending[c].pc = "vehicle_insert" /\ pending'[c].pc = "vehicle_upsert"

MeterInserts(c) ==
    pending[c].pc = "meter_insert" /\ pending'[c].pc = "meter_upsert"

\* c's status upsert takes effect: the acknowledgement is due.
VehicleUpsertCommits(c) ==
    /\ pending[c].pc = "vehicle_upsert"
    /\ pending'[c].pc = "ingest_return"
    /\ pending'[c].data.status = "ok"

MeterUpsertCommits(c) ==
    /\ pending[c].pc = "meter_upsert"
    /\ pending'[c].pc = "ingest_return"
    /\ pending'[c].data.status = "ok"

\* c's getVehiclePerformance call is made: the clock is read and the mapping
\* lookup is issued.
CallsPerformance(c) == pending[c].pc = "idle" /\ pending'[c].pc = "perf_lookup"

\* c's mapping lookup finds a row, c runs its vehicle query, and c runs its
\* meter query, which leaves its answer due.
LooksUp(c) == pending[c].pc = "perf_lookup" /\ pending'[c].pc = "perf_vehicle"

QueriesVehicle(c) ==
    pending[c].pc = "perf_vehicle" /\ pending'[c].pc = "perf_meter"

Answers(c) ==
    /\ pending[c].pc = "perf_meter"
    /\ pending'[c].pc = "performance_return"
    /\ pending'[c].data.status = "ok"

\* c is resumed after its last statement and its response is sent.
Sends(c) == pending[c].pc \in ReturnStages /\ pending'[c].pc = "idle"

\* The response sent is the one c's last statement left due, and sending it
\* changes no relation.
SendsWhatIsDue(c) ==
    /\ call'.op = pending[c].data.op
    /\ call'.arg = pending[c].data.arg
    /\ call'.status = pending[c].data.status
    /\ call'.body = pending[c].data.body
    /\ db' = db

\* The response of the step taken was due to some caller.
SentBy(c) == Sends(c) /\ SendsWhatIsDue(c)

(***************************************************************************)
(* Ingestion                                                               *)
(***************************************************************************)
\* C1: the status upsert of an ingestion leaves the status row of its device
\* equal to its payload, whatever the timestamps of the row it replaces and
\* of the payload (there is no only-if-newer guard); the status rows of a
\* device change in no step but the upsert of an ingestion for that device;
\* an ingestion is acknowledged only after its upsert has taken effect, with
\* the answer the upsert left due.  After calls that do not overlap, the row
\* is therefore the reading ingested last.
C1_LastWriteWins ==
    [][/\ \A c \in Callers :
             /\ VehicleUpsertCommits(c) =>
                   MappingOf(currentVehicleStatus', pending[c].data.vehicleId) =
                       {VehicleStatusOf(ExpectedVehicleRow(pending[c].data))}
             /\ MeterUpsertCommits(c) =>
                   {r \in currentMeterStatus' :
                       r.meterId = pending[c].data.meterId} =
                       {MeterStatusOf(ExpectedMeterRow(pending[c].data))}
       /\ \A v \in VehicleIds :
             MappingOf(currentVehicleStatus', v) #
                 MappingOf(currentVehicleStatus, v) =>
                     \E c \in Callers :
                         /\ VehicleUpsertCommits(c)
                         /\ pending[c].data.vehicleId = v
       /\ \A m \in MeterIds :
             {r \in currentMeterStatus' : r.meterId = m} #
                 {r \in currentMeterStatus : r.meterId = m} =>
                     \E c \in Callers :
                         /\ MeterUpsertCommits(c)
                         /\ pending[c].data.meterId = m
       /\ (call'.op = "ingest" /\ call'.status = "ok") =>
             \E c \in Callers : pending[c].pc = "ingest_return" /\ SentBy(c)
       /\ \A c \in Callers :
             (pending'[c].pc = "ingest_return" /\ pending[c].pc # "ingest_return"
              /\ pending'[c].data.status = "ok") =>
                 /\ VehicleUpsertCommits(c) \/ MeterUpsertCommits(c)
                 /\ pending'[c].data.arg = pending[c].data]_vars

\* C1 witness: with no other call in flight, an older-timestamped reading,
\* ingested after a newer one of the same vehicle, has been acknowledged and
\* has overwritten the status the newer reading had set; a meter has a
\* status row too.
C1_Witness ==
    /\ AllIdle
    /\ IsIngestOk
    /\ OnlyVehicle(call.arg)
    /\ Len(vehicleHistory) = 2
    /\ vehicleHistory[1].vehicleId = call.arg.vehicleId
    /\ vehicleHistory[2] = ExpectedVehicleRow(call.arg)
    /\ vehicleHistory[1].timestamp > vehicleHistory[2].timestamp
    /\ currentVehicleStatus = {VehicleStatusOf(vehicleHistory[2])}
    /\ currentMeterStatus # {}

\* C2: append-only law.  Every step, of an ingestion, mapping or analytics
\* call, leaves the existing history rows in place (each history only grows
\* at its end), and the reading of every acknowledged ingestion is a row of
\* the history of its kind.
C2_AppendOnly ==
    [][/\ IsPrefix(vehicleHistory, vehicleHistory')
       /\ IsPrefix(meterHistory, meterHistory')
       /\ (call'.op = "ingest" /\ call'.status = "ok" /\ OnlyVehicle(call'.arg)) =>
             \E i \in 1..Len(vehicleHistory') :
                 vehicleHistory'[i] = ExpectedVehicleRow(call'.arg)
       /\ (call'.op = "ingest" /\ call'.status = "ok" /\ OnlyMeter(call'.arg)) =>
             \E i \in 1..Len(meterHistory') :
                 meterHistory'[i] = ExpectedMeterRow(call'.arg)]_vars

\* C2 witness: two readings of one vehicle are in the history, a meter reading
\* and a mapping exist, and an analytics call has just been answered.
C2_Witness ==
    /\ Len(vehicleHistory) >= 2
    /\ vehicleHistory[1].vehicleId = vehicleHistory[2].vehicleId
    /\ vehicleHistory[1] # vehicleHistory[2]
    /\ meterHistory # <<>>
    /\ mapping # {}
    /\ call.op = "getVehiclePerformance"
    /\ call.status = "ok"

(***************************************************************************)
(* Ingestion: routing and frame                                            *)
(***************************************************************************)
\* C8 as stated: a body with both identifiers is acknowledged as vehicle
\* telemetry.
C8_VehicleFirst ==
    (IsIngestOk /\ BothIds(call.arg)) =>
        call.body = [status |-> "vehicle telemetry ingested"]

\* C8 (amended): a body with both identifiers is handled as meter telemetry.
\* Its call waits for the meter-history insert and no step of it writes a
\* vehicle relation; it is acknowledged only when it has the meter's
\* measurements, the acknowledgement is 'meter telemetry ingested', its
\* reading is then a meter-history row, and its upsert leaves its reading as
\* the current-meter-status row of its meterId.
C8_MeterFirst ==
    /\ []((IsIngestOk /\ BothIds(call.arg)) =>
             /\ call.body = [status |-> "meter telemetry ingested"]
             /\ {"kwhConsumedAc", "voltage"} \subseteq DOMAIN call.arg
             /\ \E i \in 1..Len(meterHistory) :
                   meterHistory[i] = ExpectedMeterRow(call.arg))
    /\ [](\A c \in Callers :
             (pending[c].pc \in IngestStages /\ BothIds(ReadingOf(c))) =>
                 /\ pending[c].pc \in {"meter_insert", "meter_upsert",
                                       "ingest_return"}
                 /\ (pending[c].pc = "ingest_return"
                     /\ pending[c].data.status = "ok") =>
                        pending[c].data.body =
                            [status |-> "meter telemetry ingested"])
    /\ [][\A c \in Callers :
             (pending[c].pc \in IngestStages /\ BothIds(ReadingOf(c))
              /\ pending'[c] # pending[c]) =>
                 /\ vehicleHistory' = vehicleHistory
                 /\ currentVehicleStatus' = currentVehicleStatus
                 /\ MeterUpsertCommits(c) =>
                       {r \in currentMeterStatus' :
                           r.meterId = pending[c].data.meterId} =
                           {MeterStatusOf(ExpectedMeterRow(pending[c].data))}]_vars

\* C8 witness: a body with both identifiers has been acknowledged while the
\* vehicle history holds a row.
C8_Witness ==
    /\ IsIngestOk
    /\ BothIds(call.arg)
    /\ vehicleHistory # <<>>

\* C9: a body with neither identifier is rejected with the client error
\* 'Unknown telemetry type'; the call writes nothing and is over at once.
C9_UnknownRejected ==
    /\ [][(call'.op = "ingest" /\ NoId(call'.arg)) =>
             /\ call'.status = "bad_request"
             /\ call'.body = [message |->
                   "Unknown telemetry type. Must include either meterId or vehicleId"]
             /\ db' = db
             /\ pending' = pending]_vars
    /\ [](\A c \in Callers :
             pending[c].pc \in IngestStages => ~NoId(ReadingOf(c)))

\* C9 witness: the rejection, at a moment when the relations hold rows.
C9_Witness ==
    /\ call.op = "ingest"
    /\ NoId(call.arg)
    /\ call.status = "bad_request"
    /\ vehicleHistory # <<>>
    /\ currentMeterStatus # {}

\* C10: an acknowledged ingestion makes exactly two writes.  The step of its
\* history insert appends its row to the history of its kind and changes
\* nothing else; the step of its status upsert, which leaves the
\* acknowledgement with its kind's name due, leaves one status row for its
\* device, equal to the reading, and changes nothing else: not the
\* histories, not the other kind's status relation, not the mapping, not the
\* status rows of other devices; the step that sends the acknowledgement
\* writes nothing.
C10_IngestFrame ==
    [][\A c \in Callers :
          /\ VehicleInserts(c) =>
                /\ vehicleHistory' =
                      Append(vehicleHistory, ExpectedVehicleRow(pending[c].data))
                /\ UNCHANGED <<meterHistory, currentVehicleStatus,
                               currentMeterStatus, mapping>>
          /\ MeterInserts(c) =>
                /\ meterHistory' =
                      Append(meterHistory, ExpectedMeterRow(pending[c].data))
                /\ UNCHANGED <<vehicleHistory, currentVehicleStatus,
                               currentMeterStatus, mapping>>
          /\ VehicleUpsertCommits(c) =>
                /\ pending'[c].data.body = [status |-> "vehicle telemetry ingested"]
                /\ MappingOf(currentVehicleStatus', pending[c].data.vehicleId) =
                      {VehicleStatusOf(ExpectedVehicleRow(pending[c].data))}
                /\ Others(currentVehicleStatus', "vehicleId",
                          pending[c].data.vehicleId) =
                      Others(currentVehicleStatus, "vehicleId",
                             pending[c].data.vehicleId)
                /\ UNCHANGED <<vehicleHistory, meterHistory,
                               currentMeterStatus, mapping>>
          /\ MeterUpsertCommits(c) =>
                /\ pending'[c].data.body = [status |-> "meter telemetry ingested"]
                /\ {r \in currentMeterStatus' :
                       r.meterId = pending[c].data.meterId} =
                      {MeterStatusOf(ExpectedMeterRow(pending[c].data))}
                /\ Others(currentMeterStatus', "meterId",
                          pending[c].data.meterId) =
                      Others(currentMeterStatus, "meterId",
                             pending[c].data.meterId)
                /\ UNCHANGED <<vehicleHistory, meterHistory,
                               currentVehicleStatus, mapping>>
          /\ (pending[c].pc = "ingest_return" /\ Sends(c)) =>
                SendsWhatIsDue(c)]_vars

\* C10 witness: a reading of a meter has just been acknowledged while the
\* other meter has a status row and the vehicle relations hold rows.
C10_Witness ==
    /\ IsIngestOk
    /\ OnlyMeter(call.arg)
    /\ Cardinality(currentMeterStatus) = 2
    /\ vehicleHistory # <<>>
    /\ currentVehicleStatus # {}

(***************************************************************************)
(* Malformed timestamps                                                    *)
(***************************************************************************)
\* C11 as stated: an ingestion whose timestamp is no instant is answered with
\* a validation (client) error.  The body parameter of ingest is typed as a
\* union, so no validation runs before the service; new Date gives an Invalid
\* Date, the store rejects the row and the caller gets a server error.
C11_MalformedIsClientError ==
    (call.op = "ingest" /\ ~NoId(call.arg) /\ ~Timestamp(call.arg).valid) =>
        call.status = "bad_request"

(***************************************************************************)
(* What a performance response is expected to report, stated over the      *)
(* relations: the rows of a device inside the window of the call.          *)
(***************************************************************************)
IsPerformance == call.op = "getVehiclePerformance"

IsPerformanceOk == IsPerformance /\ call.status = "ok"

\* The meters the mapping relation holds for a vehicle.
MappedMeters(v) == {r.meterId : r \in {x \in mapping : x.vehicleId = v}}

\* The history rows of a device whose timestamp is inside the 24 hours before
\* a clock reading, and before the response in hand.
InWindowAt(history, column, id, clock) ==
    {i \in Indices(history, column, id) : history[i].timestamp >= clock - DayMs}

InWindow(history, column, id) == InWindowAt(history, column, id, call.at)

RECURSIVE Total(_, _, _)
Total(S, history, column) ==
    IF S = {} THEN 0
    ELSE LET i == CHOOSE x \in S : TRUE
         IN  history[i][column] + Total(S \ {i}, history, column)

TotalOf(rows, column) == Total(1..Len(rows), rows, column)

\* The rows a history holds at the indices S, in the order of the history.
RowsAt(history, S) ==
    [k \in 1..Cardinality(S) |->
        history[CHOOSE i \in S : Cardinality({j \in S : j <= i}) = k]]

\* x hundredths is num / den rounded to two decimal places.
IsRounded2(x, num, den) == 2 * Abs(x * den - 100 * num) <= Abs(den)

\* C3 as stated: the response carries the exact sums and the exact average of
\* the rows its queries read.
C3_ExactAggregates ==
    [][\A c \in Callers :
          Answers(c) =>
              LET rows == pending[c].data.vehicleRows
                  M == InWindowAt(meterHistory, "meterId",
                                  pending[c].data.meterId, pending[c].data.clock)
              IN  /\ pending'[c].data.body.energy.dcDelivered =
                         100 * TotalOf(rows, "kwhDeliveredDc")
                  /\ pending'[c].data.body.energy.acConsumed =
                         100 * Total(M, meterHistory, "kwhConsumedAc")
                  /\ rows # <<>> =>
                         pending'[c].data.body.battery.avgTemperature * Len(rows) =
                             100 * TotalOf(rows, "batteryTemp")]_vars

\* C3 (amended): a call for a vehicle reads its window at the call and goes
\* on with the meter the mapping relation holds for the vehicle at the
\* lookup; its vehicle query reads exactly the rows of that vehicle inside
\* the window, whatever rows of other vehicles the history holds; its
\* response carries, each rounded to two decimal places, the sum of
\* kwhDeliveredDc and the average of batteryTemp over those rows, and the sum
\* of kwhConsumedAc over exactly the rows of that meter inside the same
\* window, whatever rows the history holds of other meters, a meter the
\* vehicle was mapped to before among them, and whichever other vehicles are
\* mapped to the same meter.
C3_RoundedAggregates ==
    [][\A c \in Callers :
          /\ CallsPerformance(c) => pending'[c].data.clock = now
          /\ LooksUp(c) =>
                /\ pending'[c].data.meterId \in
                      MappedMeters(pending[c].data.vehicleId)
                /\ pending'[c].data.vehicleId = pending[c].data.vehicleId
                /\ pending'[c].data.clock = pending[c].data.clock
          /\ QueriesVehicle(c) =>
                /\ pending'[c].data.vehicleRows =
                      RowsAt(vehicleHistory,
                             InWindowAt(vehicleHistory, "vehicleId",
                                        pending[c].data.vehicleId,
                                        pending[c].data.clock))
                /\ pending'[c].data.vehicleId = pending[c].data.vehicleId
                /\ pending'[c].data.meterId = pending[c].data.meterId
                /\ pending'[c].data.clock = pending[c].data.clock
          /\ Answers(c) =>
                LET rows == pending[c].data.vehicleRows
                    M == InWindowAt(meterHistory, "meterId",
                                    pending[c].data.meterId,
                                    pending[c].data.clock)
                IN  /\ pending'[c].data.arg = pending[c].data.vehicleId
                    /\ pending'[c].data.body.vehicleId = pending[c].data.vehicleId
                    /\ IsRounded2(pending'[c].data.body.energy.dcDelivered,
                                  TotalOf(rows, "kwhDeliveredDc"), 1)
                    /\ IsRounded2(pending'[c].data.body.energy.acConsumed,
                                  Total(M, meterHistory, "kwhConsumedAc"), 1)
                    /\ IF rows = <<>>
                       THEN pending'[c].data.body.battery.avgTemperature = 0
                       ELSE IsRounded2(pending'[c].data.body.battery.avgTemperature,
                                       TotalOf(rows, "batteryTemp"),
                                       Len(rows))]_vars

\* C3 witness: EV-2 was mapped to M-2 by a call that has not been resumed
\* since, and has been moved to M-1, which EV-1 is mapped to as well; the
\* other caller's call for EV-2, made after the move, has its answer due.
\* The histories hold a row of EV-1, a row of M-1 and a row of M-2, all inside
\* the window: the answer carries no DC energy and the 12 kWh of M-1 alone.
C3_Witness ==
    \E c, d \in Callers :
        /\ pending[d].pc = "mapping_return"
        /\ pending[d].data.status = "ok"
        /\ pending[d].data.arg = [vehicleId |-> "EV-2", meterId |-> "M-2"]
        /\ mapping = {[vehicleId |-> "EV-1", meterId |-> "M-1"],
                      [vehicleId |-> "EV-2", meterId |-> "M-1"]}
        /\ pending[c].pc = "performance_return"
        /\ pending[c].data.status = "ok"
        /\ pending[c].data.arg = "EV-2"
        /\ pending[c].data.body.energy.dcDelivered = 0
        /\ pending[c].data.body.energy.acConsumed = 1200
        /\ pending[c].data.body.battery.avgTemperature = 0
        /\ now = 24 * HourMs
        /\ Len(vehicleHistory) = 1
        /\ vehicleHistory[1].vehicleId = "EV-1"
        /\ Len(meterHistory) = 2
        /\ {meterHistory[1].meterId, meterHistory[2].meterId} = {"M-1", "M-2"}
        /\ \A i \in 1..2 : meterHistory[i].kwhConsumedAc = 12

\* C5: the mapping lookup of getVehiclePerformance leaves not-found due, with
\* the message naming the vehicle, exactly when the mapping relation holds no
\* row for the vehicle at the lookup, history rows or not; a call goes on to
\* its queries only with the meter of a mapping row of its vehicle, only a
\* call that has gone on is answered with a result, and the not-found answer
\* sent is the one the lookup left due.
C5_NotFoundIffUnmapped ==
    [][/\ \A c \in Callers :
             /\ (/\ pending[c].pc = "perf_lookup"
                 /\ pending'[c].pc = "performance_return"
                 /\ pending'[c].data.status = "not_found") =>
                    /\ pending'[c].data.arg = pending[c].data.vehicleId
                    /\ MappedMeters(pending'[c].data.arg) = {}
                    /\ pending'[c].data.body =
                          [message |-> "No meter mapped to vehicle",
                           vehicleId |-> pending'[c].data.arg]
             /\ (/\ pending[c].pc = "perf_lookup"
                 /\ pending'[c].pc = "performance_return"
                 /\ pending'[c].data.status # "not_found") =>
                    pending'[c].data.status = "server_error"
             /\ LooksUp(c) =>
                   /\ pending'[c].data.vehicleId = pending[c].data.vehicleId
                   /\ \E r \in mapping :
                          /\ r.vehicleId = pending'[c].data.vehicleId
                          /\ r.meterId = pending'[c].data.meterId
             /\ (pending'[c].pc = "performance_return"
                 /\ pending[c].pc # "performance_return"
                 /\ pending'[c].data.status = "ok") =>
                    pending[c].pc = "perf_meter"
             /\ (pending[c].pc = "performance_return" /\ Sends(c)) =>
                   SendsWhatIsDue(c)
       /\ call'.op = "getVehiclePerformance" =>
             \E c \in Callers : pending[c].pc = "performance_return" /\ Sends(c)]_vars

\* C5 witness: with no call in flight, not-found for a vehicle that has no
\* mapping row and has readings in its history.
C5_Witness ==
    /\ AllIdle
    /\ IsPerformance
    /\ call.status = "not_found"
    /\ MappedMeters(call.arg) = {}
    /\ InWindow(vehicleHistory, "vehicleId", call.arg) # {}
    /\ currentVehicleStatus # {}

(***************************************************************************)
(* Statements are issued once                                              *)
(***************************************************************************)
\* The stages a call passes through, in order: no stage is entered twice.
Forward ==
    {<<"idle", "vehicle_insert">>, <<"idle", "meter_insert">>,
     <<"vehicle_insert", "vehicle_upsert">>, <<"meter_insert", "meter_upsert">>,
     <<"vehicle_insert", "ingest_return">>, <<"meter_insert", "ingest_return">>,
     <<"vehicle_upsert", "ingest_return">>, <<"meter_upsert", "ingest_return">>,
     <<"ingest_return", "idle">>,
     <<"idle", "mapping_return">>, <<"mapping_return", "idle">>,
     <<"idle", "getMapping_return">>, <<"getMapping_return", "idle">>,
     <<"idle", "perf_lookup">>, <<"perf_lookup", "perf_vehicle">>,
     <<"perf_lookup", "performance_return">>, <<"perf_vehicle", "perf_meter">>,
     <<"perf_vehicle", "performance_return">>,
     <<"perf_meter", "performance_return">>, <<"performance_return", "idle">>}

\* C23: a call issues each of its statements at most once: it moves through
\* its stages forward only, a history relation grows by one row only as a call
\* leaves its insert stage, a status relation changes only as a call leaves
\* its upsert stage, the mapping relation changes only as a createMapping call
\* issues its upsert, and a call whose statement has failed goes straight to
\* its return, where it sends the server error and writes nothing: after a
\* failure nothing is written until a caller submits a call.
C23_NoRetry ==
    [][/\ \A c \in Callers :
             pending'[c].pc # pending[c].pc =>
                 <<pending[c].pc, pending'[c].pc>> \in Forward
       /\ vehicleHistory' # vehicleHistory =>
             /\ Len(vehicleHistory') = Len(vehicleHistory) + 1
             /\ \E c \in Callers : VehicleInserts(c)
       /\ meterHistory' # meterHistory =>
             /\ Len(meterHistory') = Len(meterHistory) + 1
             /\ \E c \in Callers : MeterInserts(c)
       /\ currentVehicleStatus' # currentVehicleStatus =>
             \E c \in Callers : VehicleUpsertCommits(c)
       /\ currentMeterStatus' # currentMeterStatus =>
             \E c \in Callers : MeterUpsertCommits(c)
       /\ mapping' # mapping =>
             \E c \in Callers :
                 /\ pending[c].pc = "idle"
                 /\ pending'[c].pc = "mapping_return"
                 /\ pending'[c].data.status = "ok"
       /\ \A c \in Callers :
             (pending'[c].pc \in ReturnStages /\ pending[c].pc \notin ReturnStages
              /\ pending'[c].data.status = "server_error") => db' = db
       /\ \A c \in Callers : Sends(c) => SendsWhatIsDue(c)]_vars

\* C23 witness: after one acknowledged reading of a vehicle, a call with
\* another reading of it has failed at its history insert; no call is in
\* flight and the failed reading is in neither relation.
C23_Witness ==
    /\ AllIdle
    /\ call.status = "server_error"
    /\ call.op = "ingest"
    /\ OnlyVehicle(call.arg)
    /\ Len(vehicleHistory) = 1
    /\ vehicleHistory[1].vehicleId = call.arg.vehicleId
    /\ vehicleHistory[1] # ExpectedVehicleRow(call.arg)
    /\ currentVehicleStatus = {VehicleStatusOf(vehicleHistory[1])}

(***************************************************************************)
(* Repeated readings                                                       *)
(***************************************************************************)
\* The number of times a row is stored in a history.
Occurrences(history, row) ==
    Cardinality({i \in 1..Len(history) : history[i] = row})

\* The sum of a column over a set of distinct rows, each taken as many times
\* as the history stores it.
RECURSIVE WeightedTotal(_, _, _)
WeightedTotal(rows, history, column) ==
    IF rows = {} THEN 0
    ELSE LET r == CHOOSE x \in rows : TRUE
         IN  r[column] * Occurrences(history, r)
             + WeightedTotal(rows \ {r}, history, column)

\* The distinct rows of a device inside the window of a clock reading.
DistinctInWindow(history, column, id, clock) ==
    {history[i] : i \in InWindowAt(history, column, id, clock)}

\* C25: ingestion does not deduplicate: every history insert adds one more
\* copy of its row to the history, also when equal rows are stored already;
\* an acknowledged status upsert leaves the status relation as it was when
\* the device's status row already is that reading; the queries of
\* getVehiclePerformance count a row as many times as it is stored.
C25_NoDeduplication ==
    [][\A c \in Callers :
          /\ VehicleInserts(c) =>
                Occurrences(vehicleHistory', ExpectedVehicleRow(pending[c].data)) =
                    Occurrences(vehicleHistory,
                                ExpectedVehicleRow(pending[c].data)) + 1
          /\ MeterInserts(c) =>
                Occurrences(meterHistory', ExpectedMeterRow(pending[c].data)) =
                    Occurrences(meterHistory,
                                ExpectedMeterRow(pending[c].data)) + 1
          /\ (/\ VehicleUpsertCommits(c)
              /\ VehicleStatusOf(ExpectedVehicleRow(pending[c].data))
                    \in currentVehicleStatus) =>
                currentVehicleStatus' = currentVehicleStatus
          /\ (/\ MeterUpsertCommits(c)
              /\ MeterStatusOf(ExpectedMeterRow(pending[c].data))
                    \in currentMeterStatus) =>
                currentMeterStatus' = currentMeterStatus
          /\ QueriesVehicle(c) =>
                TotalOf(pending'[c].data.vehicleRows, "kwhDeliveredDc") =
                    WeightedTotal(
                        DistinctInWindow(vehicleHistory, "vehicleId",
                                         pending[c].data.vehicleId,
                                         pending[c].data.clock),
                        vehicleHistory, "kwhDeliveredDc")
          /\ Answers(c) =>
                /\ pending'[c].data.body.energy.dcDelivered =
                      100 * TotalOf(pending[c].data.vehicleRows,
                                    "kwhDeliveredDc")
                /\ pending'[c].data.body.energy.acConsumed =
                      100 * WeightedTotal(
                                DistinctInWindow(meterHistory, "meterId",
                                                 pending[c].data.meterId,
                                                 pending[c].data.clock),
                                meterHistory, "kwhConsumedAc")]_vars

\* C25 witness: one reading of a vehicle has been ingested three times: the
\* history holds three equal rows, the status relation holds the one row of
\* that reading, and with no call in flight getVehiclePerformance has
\* reported three times its kwhDeliveredDc.
C25_Witness ==
    /\ AllIdle
    /\ IsPerformanceOk
    /\ Len(vehicleHistory) = 3
    /\ vehicleHistory[1] = vehicleHistory[2]
    /\ vehicleHistory[2] = vehicleHistory[3]
    /\ vehicleHistory[1].vehicleId = call.arg
    /\ currentVehicleStatus = {VehicleStatusOf(vehicleHistory[1])}
    /\ call.body.energy.dcDelivered =
          3 * 100 * vehicleHistory[1].kwhDeliveredDc
    /\ call.body.energy.dcDelivered > 0

(***************************************************************************)
(* The reads of one getVehiclePerformance call                             *)
(***************************************************************************)
\* C26: the reads of one getVehiclePerformance call are no snapshot.  The
\* vehicle query keeps the meterId read at the lookup and the clock read as the
\* call was made, and reads the vehicle history as it is at that step; the meter query, the last
\* statement of the call, sums the rows the meter history holds at that step for the meterId
\* read at the lookup, whatever the mapping relation holds by then, and
\* reports as dcDelivered the sum read at the vehicle query, whatever the
\* vehicle history holds by then.
C26_ReadsAreNoSnapshot ==
    [][\A c \in Callers :
          /\ QueriesVehicle(c) =>
                /\ pending'[c].data.meterId = pending[c].data.meterId
                /\ pending'[c].data.clock = pending[c].data.clock
                /\ pending'[c].data.vehicleRows =
                      SelectSeq(vehicleHistory,
                                LAMBDA r :
                                    /\ r.vehicleId = pending[c].data.vehicleId
                                    /\ ~(r.timestamp < pending[c].data.clock - DayMs))
          /\ Answers(c) =>
                /\ pending'[c].data.op = "getVehiclePerformance"
                /\ pending'[c].data.arg = pending[c].data.vehicleId
                /\ pending'[c].data.body.energy.acConsumed =
                      100 * Total({i \in Indices(meterHistory, "meterId",
                                                 pending[c].data.meterId) :
                                      meterHistory[i].timestamp >=
                                          pending[c].data.clock - DayMs},
                                  meterHistory, "kwhConsumedAc")
                /\ pending'[c].data.body.energy.dcDelivered =
                      100 * Total(1..Len(pending[c].data.vehicleRows),
                                  pending[c].data.vehicleRows,
                                  "kwhDeliveredDc")]_vars

\* C26 witness: a call for EV-1 has its answer due, reporting the 12 kWh of
\* M-1 and no DC energy, while the other caller's call with that reading of
\* M-1 is still at its status upsert, the reading is the only meter row, the
\* vehicle history holds a row of EV-1 inside the window and EV-1 is mapped to
\* M-2.  The first call read M-1 at its lookup and has written nothing since,
\* so the other caller moved EV-1 to M-2 and ingested the vehicle row after
\* that lookup, both in calls that ended before its meter call began; the
\* meter row, committed later still, is in the answer and the vehicle row is
\* not: the vehicle query ran before the one and the meter query after the
\* other, with M-1.  No state of the relations held the meter row without
\* the vehicle row.
C26_Witness ==
    \E c, d \in Callers :
        /\ pending[c].pc = "performance_return"
        /\ pending[c].data.status = "ok"
        /\ pending[c].data.arg = "EV-1"
        /\ pending[c].data.body.energy.acConsumed = 100 * 12
        /\ pending[c].data.body.energy.dcDelivered = 0
        /\ pending[d].pc = "meter_upsert"
        /\ pending[d].data.meterId = "M-1"
        /\ meterHistory = <<ExpectedMeterRow(pending[d].data)>>
        /\ meterHistory[1].kwhConsumedAc = 12
        /\ Len(vehicleHistory) = 1
        /\ InWindowAt(vehicleHistory, "vehicleId", "EV-1", now) = {1}
        /\ mapping = {[vehicleId |-> "EV-1", meterId |-> "M-2"]}

(***************************************************************************)
(* Aggregates and the status relations                                     *)
(***************************************************************************)
\* The rows among S that a status row of the relation reflects.
ReflectedVehicleRows(S) ==
    {i \in S : VehicleStatusOf(vehicleHistory[i]) \in currentVehicleStatus}

ReflectedMeterRows(S) ==
    {i \in S : MeterStatusOf(meterHistory[i]) \in currentMeterStatus}

\* C27: the response of getVehiclePerformance is made of the mapping and the
\* two histories alone: the sums its queries read are taken over the history
\* rows a status row reflects and over those no status row reflects alike,
\* among them the row of a call that ended with a server error after its
\* history insert.
C27_StatusPlaysNoRole ==
    [][\A c \in Callers :
          /\ QueriesVehicle(c) =>
                LET V == InWindowAt(vehicleHistory, "vehicleId",
                                    pending[c].data.vehicleId,
                                    pending[c].data.clock)
                IN  TotalOf(pending'[c].data.vehicleRows, "kwhDeliveredDc") =
                        Total(ReflectedVehicleRows(V), vehicleHistory,
                              "kwhDeliveredDc")
                        + Total(V \ ReflectedVehicleRows(V), vehicleHistory,
                                "kwhDeliveredDc")
          /\ Answers(c) =>
                LET M == InWindowAt(meterHistory, "meterId",
                                    pending[c].data.meterId,
                                    pending[c].data.clock)
                IN  /\ pending'[c].data.body.energy.acConsumed =
                          100 * (Total(ReflectedMeterRows(M), meterHistory,
                                       "kwhConsumedAc")
                                 + Total(M \ ReflectedMeterRows(M),
                                         meterHistory, "kwhConsumedAc"))
                    /\ pending'[c].data.body.energy.dcDelivered =
                          100 * TotalOf(pending[c].data.vehicleRows,
                                        "kwhDeliveredDc")]_vars

\* C27 witness: the only ingestion call for EV-1 inserted its history row and
\* then failed at its status upsert, so EV-1 has no status row; with no call
\* in flight getVehiclePerformance has reported that row's kwhDeliveredDc.
C27_Witness ==
    /\ AllIdle
    /\ IsPerformanceOk
    /\ call.arg = "EV-1"
    /\ Len(vehicleHistory) = 1
    /\ vehicleHistory[1].vehicleId = "EV-1"
    /\ currentVehicleStatus = {}
    /\ call.body.energy.dcDelivered = 100 * vehicleHistory[1].kwhDeliveredDc
    /\ call.body.energy.dcDelivered > 0

(***************************************************************************)
(* The efficiency ratio and the 24-hour window                             *)
(***************************************************************************)
\* The sums a response is made of: the rows its vehicle query has read, and
\* the rows of its meter inside its window as its meter query runs.
TotalDc(c) == TotalOf(pending[c].data.vehicleRows, "kwhDeliveredDc")

TotalAc(c) ==
    Total(InWindowAt(meterHistory, "meterId", pending[c].data.meterId,
                     pending[c].data.clock),
          meterHistory, "kwhConsumedAc")

\* C4 as stated: the ratio is DC / AC rounded for every AC sum other than
\* zero, and 0 when the AC sum is zero.
C4_RatioUnlessZero ==
    [][\A c \in Callers :
          Answers(c) =>
              /\ TotalAc(c) # 0 =>
                    IsRounded2(pending'[c].data.body.energy.efficiencyRatio,
                               TotalDc(c), TotalAc(c))
              /\ TotalAc(c) = 0 => pending'[c].data.body.energy.efficiencyRatio = 0]_vars

\* C4 (amended): the ratio is DC / AC rounded to two decimal places for every
\* AC sum greater than zero, and 0 whenever the AC sum is zero or negative.
C4_RatioWhenPositive ==
    [][\A c \in Callers :
          Answers(c) =>
              /\ TotalAc(c) > 0 =>
                    IsRounded2(pending'[c].data.body.energy.efficiencyRatio,
                               TotalDc(c), TotalAc(c))
              /\ TotalAc(c) <= 0 => pending'[c].data.body.energy.efficiencyRatio = 0]_vars

\* C4 witness: 10 kWh delivered for 12 kWh consumed is reported as 0.83.
C4_Witness ==
    /\ IsPerformanceOk
    /\ call.body.energy.dcDelivered = 100 * 10
    /\ call.body.energy.acConsumed = 100 * 12
    /\ call.body.energy.efficiencyRatio = 83

\* C6: the window of a call is the 24 hours before the clock read as the call
\* is made; a vehicle query that finds no row of the vehicle inside it reads
\* nothing, and a call that has read no vehicle row and finds no row of
\* its meter inside the window is left, unless its query fails, with a result
\* due in which every number is 0.
C6_ZeroWhenNoRows ==
    [][\A c \in Callers :
          /\ CallsPerformance(c) => pending'[c].data.clock = now
          /\ (LooksUp(c) \/ QueriesVehicle(c)) =>
                pending'[c].data.clock = pending[c].data.clock
          /\ (/\ QueriesVehicle(c)
              /\ InWindowAt(vehicleHistory, "vehicleId",
                            pending[c].data.vehicleId,
                            pending[c].data.clock) = {}) =>
                pending'[c].data.vehicleRows = <<>>
          /\ (/\ pending[c].pc = "perf_meter"
              /\ pending'[c].pc = "performance_return"
              /\ pending'[c].data.status # "server_error"
              /\ pending[c].data.vehicleRows = <<>>
              /\ InWindowAt(meterHistory, "meterId", pending[c].data.meterId,
                            pending[c].data.clock) = {}) =>
                /\ pending'[c].data.status = "ok"
                /\ pending'[c].data.body.energy =
                      [acConsumed |-> 0, dcDelivered |-> 0,
                       efficiencyRatio |-> 0]
                /\ pending'[c].data.body.battery = [avgTemperature |-> 0]]_vars

\* C6 witness: the zero response, sent at hour 36, for a vehicle whose only
\* readings, and whose meter's only readings, are stamped hour 0.  The other
\* caller mapped the vehicle to M-2 in a call that has not been resumed
\* since; the vehicle was moved to M-1 after that and the call answered came
\* later still, so the rows were all there when its queries ran, and were
\* older than its window.
C6_Witness ==
    /\ IsPerformanceOk
    /\ call.at = 36 * HourMs
    /\ \E d \in Callers :
          /\ pending[d].pc = "mapping_return"
          /\ pending[d].data.status = "ok"
          /\ pending[d].data.arg = [vehicleId |-> call.arg, meterId |-> "M-2"]
          /\ \A c \in Callers \ {d} : pending[c].pc = "idle"
    /\ mapping = {[vehicleId |-> call.arg, meterId |-> "M-1"]}
    /\ Indices(vehicleHistory, "vehicleId", call.arg) # {}
    /\ InWindow(vehicleHistory, "vehicleId", call.arg) = {}
    /\ Indices(meterHistory, "meterId", "M-1") # {}
    /\ InWindow(meterHistory, "meterId", "M-1") = {}
    /\ call.body.energy =
          [acConsumed |-> 0, dcDelivered |-> 0, efficiencyRatio |-> 0]
    /\ call.body.battery = [avgTemperature |-> 0]

\* The history rows of a device whose timestamp is before an instant.
Before(history, column, id, instant) ==
    {i \in Indices(history, column, id) : history[i].timestamp < instant}

\* C18: a history row counts in getVehiclePerformance exactly when its
\* timestamp is not before the clock of the call minus 24 hours: the sums the
\* queries read are the sums over all rows of the device less those over the
\* rows before that instant (the boundary instant and later ones, future ones
\* included, count), and appending a row whose timestamp is more than 24
\* hours before the clock changes the result for no vehicle and no meter.
C18_WindowByTimestamp ==
    [][/\ \A c \in Callers :
            /\ CallsPerformance(c) => pending'[c].data.clock = now
            /\ LooksUp(c) => pending'[c].data.clock = pending[c].data.clock
            /\ QueriesVehicle(c) =>
                  LET v == pending[c].data.vehicleId
                      since == pending[c].data.clock - DayMs
                      V == Indices(vehicleHistory, "vehicleId", v)
                      oldV == Before(vehicleHistory, "vehicleId", v, since)
                  IN  /\ TotalOf(pending'[c].data.vehicleRows, "kwhDeliveredDc") =
                            Total(V, vehicleHistory, "kwhDeliveredDc")
                            - Total(oldV, vehicleHistory, "kwhDeliveredDc")
                      /\ Len(pending'[c].data.vehicleRows) =
                            Cardinality(V) - Cardinality(oldV)
                      /\ pending'[c].data.clock = pending[c].data.clock
            /\ Answers(c) =>
                  LET m == pending[c].data.meterId
                      since == pending[c].data.clock - DayMs
                      M == Indices(meterHistory, "meterId", m)
                      oldM == Before(meterHistory, "meterId", m, since)
                  IN  /\ pending'[c].data.body.energy.acConsumed =
                            100 * (Total(M, meterHistory, "kwhConsumedAc")
                                   - Total(oldM, meterHistory, "kwhConsumedAc"))
                      /\ pending'[c].data.body.energy.dcDelivered =
                            100 * TotalOf(pending[c].data.vehicleRows,
                                          "kwhDeliveredDc")
       /\ (\E c \in Callers :
              /\ VehicleInserts(c) \/ MeterInserts(c)
              /\ Timestamp(pending[c].data).time < now - DayMs) =>
             \A v \in VehicleIds, m \in MeterIds :
                 Performance(v, m, vehicleHistory', meterHistory', now') =
                     Performance(v, m, vehicleHistory, meterHistory, now)]_vars

\* C18 witness: with no call in flight, a response sent at hour 36 carries a
\* row stamped hour 0 together with a row stamped hour 36.  The call was made
\* at hour 24, for which hour 0 is the boundary and hour 36 is in the future,
\* and the clock passed the end of the first row's 24 hours before the call
\* ended.
C18_Witness ==
    /\ AllIdle
    /\ IsPerformanceOk
    /\ call.at = 36 * HourMs
    /\ call.body.energy.dcDelivered = 100 * (10 + 86)
    /\ \E i \in Indices(vehicleHistory, "vehicleId", call.arg) :
          vehicleHistory[i].timestamp = Instant(0).time
    /\ \E i \in Indices(vehicleHistory, "vehicleId", call.arg) :
          vehicleHistory[i].timestamp = Instant(36 * HourMs).time
    /\ Cardinality(Indices(vehicleHistory, "vehicleId", call.arg)) = 2
(***************************************************************************)
(* Mapping                                                                 *)
(***************************************************************************)
\* The upsert of c's createMapping call takes effect: its answer is due.
MapsVehicle(c) ==
    /\ pending[c].pc = "idle"
    /\ pending'[c].pc = "mapping_return"
    /\ pending'[c].data.status = "ok"

\* The read of c's getMapping call is made: its answer is due.
ReadsMapping(c) ==
    pending[c].pc = "idle" /\ pending'[c].pc = "getMapping_return"

\* The lookup of c's getVehiclePerformance call finds no row.
LooksUpNothing(c) ==
    /\ pending[c].pc = "perf_lookup"
    /\ pending'[c].pc = "performance_return"
    /\ pending'[c].data.status = "not_found"

\* C7: the upsert of a createMapping(v, m) leaves (v, m) as the mapping row
\* of v, and the row of a vehicle changes in no other step than the upsert
\* of a createMapping for that vehicle, so the row stays until the next one;
\* the read of a getMapping(v) takes the row the relation holds for v, and
\* that row is what the call returns; a createMapping that repeats the
\* stored pair leaves the relation as it is; the answers sent are those the
\* statements left due.
C7_MappingOverwrite ==
    [][/\ \A c \in Callers :
             /\ MapsVehicle(c) =>
                   LET pair == pending'[c].data.arg
                   IN  /\ MappingOf(mapping', pair.vehicleId) =
                             {[vehicleId |-> pair.vehicleId,
                               meterId |-> pair.meterId]}
                       /\ pending'[c].data.body =
                             Created(pair.vehicleId, pair.meterId)
                       /\ [vehicleId |-> pair.vehicleId,
                           meterId |-> pair.meterId] \in mapping =>
                              mapping' = mapping
             /\ (ReadsMapping(c) /\ pending'[c].data.status = "ok") =>
                   /\ MappingOf(mapping, pending'[c].data.arg) =
                         {pending'[c].data.body}
                   /\ pending'[c].data.body.vehicleId = pending'[c].data.arg
             /\ (Sends(c) /\ pending[c].pc \in {"mapping_return",
                                                "getMapping_return"}) =>
                   SendsWhatIsDue(c)
       /\ \A v \in VehicleIds :
             MappingOf(mapping', v) # MappingOf(mapping, v) =>
                 \E c \in Callers :
                     MapsVehicle(c) /\ pending'[c].data.arg.vehicleId = v
       /\ (call'.op \in {"createMapping", "getMapping"}) =>
             \E c \in Callers : Sends(c)]_vars

\* C7 witness: with no call in flight, getMapping returns M-2 for a vehicle,
\* the row the relation holds for it, while the other vehicle is mapped too.
C7_Witness ==
    /\ AllIdle
    /\ call.op = "getMapping"
    /\ call.status = "ok"
    /\ call.body.meterId = "M-2"
    /\ MappingOf(mapping, call.arg) = {call.body}
    /\ Cardinality(mapping) = 2

\* C13: the mapping relation never holds two rows for one vehicleId, and the
\* upsert of a createMapping for one vehicle leaves the rows of every other
\* vehicle as they were, whatever meter they hold: several vehicles may share
\* a meter.
C13_ManyToOne ==
    /\ [](\A r1 \in mapping, r2 \in mapping :
             r1.vehicleId = r2.vehicleId => r1 = r2)
    /\ [][\A c \in Callers :
             (MapsVehicle(c) /\ mapping' # mapping) =>
                 /\ Others(mapping', "vehicleId",
                           pending'[c].data.arg.vehicleId) =
                       Others(mapping, "vehicleId",
                              pending'[c].data.arg.vehicleId)
                 /\ Cardinality(mapping') >= Cardinality(mapping)]_vars

\* C13 witness: the second vehicle has just been mapped to the meter the
\* first vehicle holds, and both rows are in the relation.
C13_Witness ==
    /\ call.op = "createMapping"
    /\ call.status = "ok"
    /\ call.arg = [vehicleId |-> "EV-2", meterId |-> "M-1"]
    /\ mapping = {[vehicleId |-> "EV-1", meterId |-> "M-1"],
                  [vehicleId |-> "EV-2", meterId |-> "M-1"]}

\* A mapping body lacks a usable value for one of the two identifiers.
LacksId(dto) ==
    \E key \in {"vehicleId", "meterId"} : key \notin DOMAIN dto \/ dto[key] = ""

\* C15 as stated: a PUT whose body holds meterId only succeeds and leaves the
\* path's vehicle mapped to that meter, as the POST of the pair would.  The
\* body is checked against CreateVehicleMeterMappingDto, which requires
\* vehicleId, so the request is refused and the mapping is left as it was.
C15_PutMeterIdOnly ==
    [][\A c \in Callers, v \in VehicleIds, dto \in UpdateBodies :
          (DOMAIN dto = {"meterId"} /\ updateMapping(c, v, dto)) =>
              /\ MapsVehicle(c)
              /\ MappingOf(mapping', v) =
                    {[vehicleId |-> v, meterId |-> dto.meterId]}]_vars

\* C16: a mapping create request whose vehicleId or meterId is missing or
\* empty is answered at once with a client error and leaves the mapping
\* relation as it was, and no mapping row ever holds an empty vehicleId or
\* meterId.
C16_InvalidMappingRejected ==
    /\ [][\A c \in Callers, dto \in MappingBodies :
             (LacksId(dto) /\ postMapping(c, dto)) =>
                 /\ call'.status = "bad_request"
                 /\ mapping' = mapping
                 /\ pending' = pending]_vars
    /\ [](\A r \in mapping : r.vehicleId # "" /\ r.meterId # "")

\* C16 witness: a create request with an empty vehicleId has just been refused
\* while the mapping relation holds a row.
C16_Witness ==
    /\ call.op = "postMapping"
    /\ call.status = "bad_request"
    /\ "vehicleId" \in DOMAIN call.arg
    /\ call.arg.vehicleId = ""
    /\ mapping # {}

\* C17: the read of getMapping(v) leaves not-found due, naming v, only when
\* the relation holds no row for v, and always then unless the read itself
\* fails; a vehicle that has a mapping row keeps one in every later step, so
\* neither the read of a getMapping(v) nor the lookup of a
\* getVehiclePerformance(v) made once v is mapped leaves not-found due; the
\* answer sent is the one the read left due.
C17_NotFoundUntilMapped ==
    [][/\ \A c \in Callers :
             /\ ReadsMapping(c) =>
                   LET due == pending'[c].data
                   IN  /\ due.status \in {"ok", "not_found", "server_error"}
                       /\ due.status = "not_found" =>
                             /\ MappingOf(mapping, due.arg) = {}
                             /\ due.body = NotFound(due.arg)
                       /\ due.status = "ok" => MappingOf(mapping, due.arg) # {}
             /\ LooksUpNothing(c) =>
                   MappingOf(mapping, pending'[c].data.arg) = {}
             /\ LooksUp(c) =>
                   MappingOf(mapping, pending'[c].data.vehicleId) # {}
             /\ (Sends(c) /\ pending[c].pc \in {"getMapping_return",
                                                "performance_return"}) =>
                   SendsWhatIsDue(c)
       /\ \A v \in VehicleIds :
             MappingOf(mapping, v) # {} => MappingOf(mapping', v) # {}]_vars

\* C17 witness: with no call in flight, getMapping answers for a vehicle for
\* which it answered not-found before the vehicle was mapped: the vehicle is
\* mapped, the other is not, and the read has just succeeded.
C17_Witness ==
    /\ AllIdle
    /\ call.op = "getMapping"
    /\ call.status = "ok"
    /\ call.arg = "EV-2"
    /\ mapping = {[vehicleId |-> "EV-2", meterId |-> "M-2"]}

(***************************************************************************)
(* Frames of the analytics operations                                      *)
(***************************************************************************)
\* C24: every statement of a getVehiclePerformance call and the read of every
\* getMapping call, whether it leaves a result, not-found or a failure due,
\* and every step that sends an answer, leave all five relations as they
\* were; the upsert of a createMapping call leaves the histories, the status
\* relations and the mapping rows of every other vehicle as they were.
C24_AnalyticsFrame ==
    [][\A c \in Callers :
          /\ (\/ CallsPerformance(c)
              \/ LooksUp(c)
              \/ QueriesVehicle(c)
              \/ ReadsMapping(c)
              \/ (pending[c].pc \in QueryStages \cup {"perf_lookup"}
                  /\ pending'[c].pc = "performance_return")
              \/ Sends(c))
                 => db' = db
          /\ (pending'[c].pc \in {"getMapping_return", "performance_return"}
              /\ pending'[c] # pending[c]) =>
                pending'[c].data.status \in {"ok", "not_found", "server_error"}
          /\ (pending[c].pc = "idle" /\ pending'[c].pc = "mapping_return") =>
                /\ UNCHANGED <<vehicleHistory, meterHistory,
                               currentVehicleStatus, currentMeterStatus>>
                /\ \A r \in mapping :
                      r.vehicleId # pending'[c].data.arg.vehicleId =>
                          r \in mapping'
                /\ \A r \in mapping' :
                      r.vehicleId # pending'[c].data.arg.vehicleId =>
                          r \in mapping]_vars

\* C24 witness: with no call in flight, getVehiclePerformance has just
\* answered with the energy of a stored vehicle reading and of a stored meter
\* reading while both histories, both status relations and the mapping hold
\* rows.
C24_Witness ==
    /\ AllIdle
    /\ IsPerformanceOk
    /\ call.body.energy.dcDelivered = 100 * 10
    /\ call.body.energy.acConsumed = 100 * 12
    /\ Indices(vehicleHistory, "vehicleId", call.arg) # {}
    /\ currentVehicleStatus # {}
    /\ meterHistory # <<>>
    /\ currentMeterStatus # {}
    /\ mapping # {}

(***************************************************************************)
(* Status rows under calls in flight together                              *)
(***************************************************************************)
\* C12: under every interleaving of ingestion calls each status relation holds
\* at most one row per device; a device that has a row keeps one in every
\* later state, and the status upsert of every ingestion leaves its device
\* with a row.
C12_OneStatusRowPerDevice ==
    /\ [](\A r1 \in currentVehicleStatus, r2 \in currentVehicleStatus :
             r1.vehicleId = r2.vehicleId => r1 = r2)
    /\ [](\A r1 \in currentMeterStatus, r2 \in currentMeterStatus :
             r1.meterId = r2.meterId => r1 = r2)
    /\ [][/\ \A r \in currentVehicleStatus :
                \E r2 \in currentVehicleStatus' : r2.vehicleId = r.vehicleId
          /\ \A r \in currentMeterStatus :
                \E r2 \in currentMeterStatus' : r2.meterId = r.meterId]_vars
    /\ [][/\ \A c \in Callers : VehicleUpsertCommits(c) =>
                \E r \in currentVehicleStatus' :
                    r.vehicleId = pending[c].data.vehicleId
          /\ \A c \in Callers : MeterUpsertCommits(c) =>
                \E r \in currentMeterStatus' :
                    r.meterId = pending[c].data.meterId]_vars

\* C12 witness: a vehicle has been ingested twice with different readings and
\* has one status row, a meter has a status row, and a call is in flight.
C12_Witness ==
    /\ Len(vehicleHistory) = 2
    /\ vehicleHistory[1].vehicleId = vehicleHistory[2].vehicleId
    /\ vehicleHistory[1] # vehicleHistory[2]
    /\ Cardinality(currentVehicleStatus) = 1
    /\ Cardinality(currentMeterStatus) = 1
    /\ \E c \in Callers : pending[c].pc # "idle"
    /\ \E c \in Callers : pending[c].pc = "idle"

\* C14: in every state reached with ingestion calls in flight together, each
\* status row carries the device id, the values and the timestamp of one row
\* its device's history already holds: it is one payload's complete field
\* set, never fields of two payloads.
C14_StatusIsOnePayload ==
    /\ \A s \in currentVehicleStatus :
          \E i \in 1..Len(vehicleHistory) : VehicleStatusOf(vehicleHistory[i]) = s
    /\ \A s \in currentMeterStatus :
          \E i \in 1..Len(meterHistory) : MeterStatusOf(meterHistory[i]) = s

\* C14 witness: two calls for one vehicle with different readings have both
\* inserted their history rows; the one that inserted second has committed
\* its status upsert and the other has yet to.
C14_Witness ==
    /\ Len(vehicleHistory) = 2
    /\ vehicleHistory[1].vehicleId = vehicleHistory[2].vehicleId
    /\ vehicleHistory[1] # vehicleHistory[2]
    /\ \E c \in Callers : pending[c].pc = "vehicle_upsert"
    /\ \E c \in Callers : pending[c].pc = "idle"
    /\ currentVehicleStatus = {VehicleStatusOf(vehicleHistory[2])}

\* C20: the status row of a device after a call's status upsert takes effect is
\* that call's payload, whatever the timestamps of the payloads and whatever
\* the order of the history inserts, and a status relation changes in no
\* other step: the row left by two calls in flight together is the payload of
\* the upsert that committed last.
C20_LastCommitWins ==
    /\ [][\A c \in Callers : VehicleUpsertCommits(c) =>
             {r \in currentVehicleStatus' :
                  r.vehicleId = pending[c].data.vehicleId} =
                 {CurrentVehicleStatusRow(pending[c].data)}]_vars
    /\ [][\A c \in Callers : MeterUpsertCommits(c) =>
             {r \in currentMeterStatus' :
                  r.meterId = pending[c].data.meterId} =
                 {CurrentMeterStatusRow(pending[c].data)}]_vars
    /\ [][/\ currentVehicleStatus' # currentVehicleStatus =>
                \E c \in Callers : VehicleUpsertCommits(c)
          /\ currentMeterStatus' # currentMeterStatus =>
                \E c \in Callers : MeterUpsertCommits(c)]_vars

\* C20 witness: two calls with different readings of one vehicle are in
\* flight together, both status upserts have committed and both
\* acknowledgements are due; the two history rows are theirs, and the status
\* row is the reading whose history row was inserted first, which is also the
\* one with the earlier timestamp: its upsert committed last.
C20_Witness ==
    \E c, d \in Callers :
        /\ c # d
        /\ pending[c].pc = "ingest_return" /\ pending[c].data.status = "ok"
        /\ pending[d].pc = "ingest_return" /\ pending[d].data.status = "ok"
        /\ OnlyVehicle(pending[c].data.arg)
        /\ OnlyVehicle(pending[d].data.arg)
        /\ pending[c].data.arg.vehicleId = pending[d].data.arg.vehicleId
        /\ vehicleHistory = <<ExpectedVehicleRow(pending[c].data.arg),
                              ExpectedVehicleRow(pending[d].data.arg)>>
        /\ vehicleHistory[1].timestamp < vehicleHistory[2].timestamp
        /\ currentVehicleStatus = {VehicleStatusOf(vehicleHistory[1])}

(***************************************************************************)
(* Ingestion with failing statements                                       *)
(***************************************************************************)
\* A status row has no history row with its device id, values and timestamp.
StatusWithoutHistory ==
    \/ \E s \in currentVehicleStatus :
          \A i \in 1..Len(vehicleHistory) : VehicleStatusOf(vehicleHistory[i]) # s
    \/ \E s \in currentMeterStatus :
          \A i \in 1..Len(meterHistory) : MeterStatusOf(meterHistory[i]) # s


\* C21 as stated: either write of a call may be the one a failure leaves in
\* place.  For the status write to stand alone a call's status upsert must be
\* able to commit while its history insert has not: a call that waits for its
\* history insert can commit its status upsert.  The handler awaits the
\* insert first and stops when it throws, so the upsert is never issued then.
C21_EitherWriteAlone ==
    \A c \in Callers :
        /\ pending[c].pc = "vehicle_insert" => ENABLED upsertVehicleStatus(c)
        /\ pending[c].pc = "meter_insert" => ENABLED upsertMeterStatus(c)

\* C21 (amended): the two writes of a call are not atomic together, in one
\* direction only: a failure between them leaves the history row in place
\* (no history row is ever taken back) with the status row stale, while a
\* status row never exists without a history row of the same device id, values
\* and timestamp.
C21_HistoryAloneOnly ==
    /\ [](~StatusWithoutHistory)
    /\ [][/\ IsPrefix(vehicleHistory, vehicleHistory')
          /\ IsPrefix(meterHistory, meterHistory')]_vars

\* C21 witness: a call for a vehicle has failed between its two writes: its
\* row is the only row of the vehicle history, the vehicle has no status row,
\* and no call is in flight.
C21_Witness ==
    /\ AllIdle
    /\ call.status = "server_error"
    /\ OnlyVehicle(call.arg)
    /\ vehicleHistory = <<ExpectedVehicleRow(call.arg)>>
    /\ currentVehicleStatus = {}

\* C22: a call whose history insert fails goes to its return with a server
\* error due, issues no status upsert and leaves every relation as it was; a
\* call goes on to its status upsert only with its history row inserted; a
\* call whose status upsert fails goes to its return with the same server
\* error due and no acknowledgement, and leaves every relation as it was, its
\* history row included; the answer sent is the one left due, and sending it
\* writes nothing.
C22_FailureAborts ==
    [][\A c \in Callers :
          /\ (pending[c].pc \in InsertStages
              /\ pending'[c].pc = "ingest_return") =>
                /\ pending'[c].data.status = "server_error"
                /\ pending'[c].data.body = InternalServerError
                /\ db' = db
          /\ (pending[c].pc = "vehicle_insert" /\ pending'[c].pc # "vehicle_insert") =>
                \/ pending'[c].pc = "ingest_return"
                \/ /\ pending'[c].pc = "vehicle_upsert"
                   /\ vehicleHistory' =
                         Append(vehicleHistory, ExpectedVehicleRow(pending[c].data))
          /\ (pending[c].pc = "meter_insert" /\ pending'[c].pc # "meter_insert") =>
                \/ pending'[c].pc = "ingest_return"
                \/ /\ pending'[c].pc = "meter_upsert"
                   /\ meterHistory' =
                         Append(meterHistory, ExpectedMeterRow(pending[c].data))
          /\ (pending[c].pc \in UpsertStages
              /\ pending'[c].pc = "ingest_return"
              /\ pending'[c].data.status # "ok") =>
                /\ pending'[c].data.status = "server_error"
                /\ pending'[c].data.body = InternalServerError
                /\ db' = db
                /\ pending[c].pc = "vehicle_upsert" =>
                      \E i \in 1..Len(vehicleHistory') :
                          vehicleHistory'[i] = ExpectedVehicleRow(pending[c].data)
                /\ pending[c].pc = "meter_upsert" =>
                      \E i \in 1..Len(meterHistory') :
                          meterHistory'[i] = ExpectedMeterRow(pending[c].data)
          /\ (pending[c].pc \in InsertStages \cup UpsertStages
              /\ pending'[c].pc # pending[c].pc) =>
                pending'[c].pc \in UpsertStages \cup {"ingest_return"}
          /\ (pending[c].pc = "ingest_return" /\ Sends(c)) =>
                SendsWhatIsDue(c)]_vars

\* C22 witness: a call for a meter has ended with a server error after its
\* history insert: the row is in the meter history, the meter has no status
\* row, and no call is in flight.
C22_Witness ==
    /\ AllIdle
    /\ call.status = "server_error"
    /\ OnlyMeter(call.arg)
    /\ meterHistory = <<ExpectedMeterRow(call.arg)>>
    /\ currentMeterStatus = {}
====
